---- MODULE Spec2Model ----
(***************************************************************************)
(* A state-machine model of the accessibility plugin in                    *)
(* src/accessibility.js: the tiered store (safeStorage), the settings      *)
(* record (a11yState) with its save / load / reset, the single-feature     *)
(* applicators and the page effects they have (body classes, overlays,     *)
(* listeners, substituted texts), the announcer and the audio alerts.      *)
(*                                                                         *)
(* JavaScript values are tagged records, so that values of different       *)
(* types can be compared: [b |-> TRUE], [n |-> 150], [s |-> "auto"],       *)
(* [null |-> TRUE].  A string kept in a store is a sequence of tokens      *)
(* ([t |-> <<"{", ...>>]); JSON.stringify and JSON.parse are the printer   *)
(* and the parser of that token language.                                  *)
(***************************************************************************)
EXTENDS Integers, Sequences, FiniteSets, TLC

\* ---------------------------------------------------------------- bounds

\* Settings mutations and host calls in one behaviour.
MaxOps == 1
\* Calls in one behaviour of the feature and store specifications.
MaxCalls == 2
\* Page sessions (script executions) in one behaviour.
MaxSessions == 2
\* Whitespace characters on either side of a leaf element's text.
MaxRetries == 3
\* how many half seconds may pass with no timeout due
MaxTicks == 2
MaxPad == 1

\* ------------------------------------------------------------ JS values

B(x) == [b |-> x]
N(x) == [n |-> x]
S(x) == [s |-> x]
T(x) == [t |-> x]
Null == [null |-> TRUE]

IsBool(v) == DOMAIN v = {"b"}
IsNum(v) == DOMAIN v = {"n"}
IsStr(v) == DOMAIN v = {"s"}
IsText(v) == DOMAIN v = {"t"}
IsNull(v) == DOMAIN v = {"null"}

\* ToBoolean: false, 0, "", null are falsy.
Truthy(v) ==
  IF IsBool(v) THEN v.b
  ELSE IF IsNum(v) THEN v.n # 0
  ELSE IF IsStr(v) THEN v.s # ""
  ELSE IF IsText(v) THEN v.t # <<>>
  ELSE FALSE

EmptyObj == [k \in {} |-> Null]

\* Object.assign(target, source): every own key of source is copied.
ObjectAssignMut(target, source) ==
  [k \in DOMAIN target |-> IF k \in DOMAIN source THEN source[k] ELSE target[k]]

ObjectAssign(target, source) ==
  [k \in DOMAIN target \cup DOMAIN source |->
     IF k \in DOMAIN source THEN source[k] ELSE target[k]]

\* ------------------------------------------------------- settings record

\* The keys of a11yState, in the order the object literal declares them.
KeyOrder ==
  << "highContrast", "textSize", "colorScheme", "enhancedFocus", "reduceMotion",
     "simpleLanguage", "readingGuide", "keyboardShortcuts", "tabOrder",
     "screenReaderMode", "announceChanges", "ariaLive", "voiceControl" >>

\* A key no version of the record declares (a snapshot may still hold it).
ExtraKeyOrder == << "theme" >>

Range(f) == {f[i] : i \in DOMAIN f}

Keys == Range(KeyOrder)

TextSizes == {100, 125, 150, 175, 200}
ColorSchemes == {"default", "protanopia", "deuteranopia", "tritanopia", "monochrome"}
ScreenReaderModes == {"auto", "nvda", "jaws", "voiceover", "talkback", "orca", "narrator"}

Defaults ==
  [ highContrast |-> B(FALSE), textSize |-> N(100), colorScheme |-> S("default"),
    enhancedFocus |-> B(FALSE), reduceMotion |-> B(FALSE), simpleLanguage |-> B(FALSE),
    readingGuide |-> B(FALSE), keyboardShortcuts |-> B(TRUE), tabOrder |-> B(FALSE),
    screenReaderMode |-> S("auto"), announceChanges |-> B(TRUE), ariaLive |-> B(TRUE),
    voiceControl |-> B(FALSE) ]

\* -------------------------------------------------------------- JSON

Digit == << "0", "1", "2", "3", "4", "5", "6", "7", "8", "9" >>

RECURSIVE NumTok(_)
NumTok(n) == IF n < 10 THEN Digit[n + 1] ELSE NumTok(n \div 10) \o Digit[(n % 10) + 1]

Quote(str) == "\"" \o str \o "\""

\* The numbers and strings the lexer knows.
Numbers == 0 .. 200
Strings == Keys \cup Range(ExtraKeyOrder) \cup ColorSchemes \cup ScreenReaderModes \cup {"dark"}

NumOfTok == [tok \in {NumTok(n) : n \in Numbers} |-> CHOOSE n \in Numbers : NumTok(n) = tok]
StrOfTok == [tok \in {Quote(x) : x \in Strings} |-> CHOOSE x \in Strings : Quote(x) = tok]

ValueTok(v) ==
  IF IsBool(v) THEN (IF v.b THEN "true" ELSE "false")
  ELSE IF IsNum(v) THEN NumTok(v.n)
  ELSE IF IsStr(v) THEN Quote(v.s)
  ELSE "null"

IsValueTok(tok) ==
  tok \in {"true", "false", "null"} \cup DOMAIN NumOfTok \cup DOMAIN StrOfTok

ValueOfTok(tok) ==
  IF tok = "true" THEN B(TRUE)
  ELSE IF tok = "false" THEN B(FALSE)
  ELSE IF tok = "null" THEN Null
  ELSE IF tok \in DOMAIN NumOfTok THEN N(NumOfTok[tok])
  ELSE S(StrOfTok[tok])

\* The keys of an object in the order JSON.stringify visits them.
OrderedKeys(obj) == SelectSeq(KeyOrder \o ExtraKeyOrder, LAMBDA k : k \in DOMAIN obj)

RECURSIVE Members(_, _)
Members(obj, ks) ==
  IF ks = <<>> THEN <<>>
  ELSE << Quote(Head(ks)), ":", ValueTok(obj[Head(ks)]) >>
       \o (IF Tail(ks) = <<>> THEN <<>> ELSE <<",">> \o Members(obj, Tail(ks)))

JSONStringifyDropFalse(obj) ==
  LET kept == SelectSeq(OrderedKeys(obj), LAMBDA k : Truthy(obj[k]))
  IN  T(<<"{">> \o Members(obj, kept) \o <<"}">>)

\* JSON.stringify(obj) of a flat object.
JSONStringify(obj) == T(<<"{">> \o Members(obj, OrderedKeys(obj)) \o <<"}">>)

ParseFail == [ok |-> FALSE, obj |-> EmptyObj]

RECURSIVE ParseMembers(_, _)
ParseMembers(m, acc) ==
  IF Len(m) < 3 THEN ParseFail
  ELSE IF m[1] \notin DOMAIN StrOfTok \/ m[2] # ":" \/ ~IsValueTok(m[3]) THEN ParseFail
  ELSE LET key == StrOfTok[m[1]]
           acc2 == [k \in DOMAIN acc \cup {key} |->
                      IF k = key THEN ValueOfTok(m[3]) ELSE acc[k]]
       IN  IF Len(m) = 3 THEN [ok |-> TRUE, obj |-> acc2]
           ELSE IF m[4] # "," THEN ParseFail
           ELSE ParseMembers(SubSeq(m, 5, Len(m)), acc2)

\* JSON.parse(text): ok is FALSE where it throws a SyntaxError; obj holds the
\* own enumerable properties Object.assign would copy from the parsed value
\* (none for null, a boolean or a number).  No store of the model holds a text
\* that is a lone string literal.
JSONParse(text) ==
  LET toks == text.t
  IN  IF Len(toks) = 1 /\ toks[1] \in {"true", "false", "null"} \cup DOMAIN NumOfTok
      THEN [ok |-> TRUE, obj |-> EmptyObj]
      ELSE IF Len(toks) < 2 \/ toks[1] # "{" \/ toks[Len(toks)] # "}" THEN ParseFail
      ELSE IF Len(toks) = 2 THEN [ok |-> TRUE, obj |-> EmptyObj]
      ELSE ParseMembers(SubSeq(toks, 2, Len(toks) - 1), EmptyObj)

\* ------------------------------------------------------------ variables

VARIABLES
  lsMode,       \* localStorage of this browser: "working", "absent" (falsy) or "throwing"
  ssMode,       \* sessionStorage: the same three
  env,          \* what the plugin finds: the user agent's signatures, the voices, Web
                \* Audio, whether the page has #audioToggle, the markup of its elements
  content,      \* the host page as served: the text of each of its leaf elements
  storage,      \* the three tiers: localStorage, sessionStorage, window._memoryStorage
  a11yState,    \* the settings record
  page,         \* the document: body classes, overlays, listeners, live region, texts
  audio,        \* audioEnabled, audioContext, the tones started
  timers,       \* pending setTimeout callbacks, in the order they fire
  now,          \* milliseconds since the script ran
  pc,           \* "loading": initializeAccessibilityControls has not run; "ready": it has
  opsLeft,      \* calls the behaviour may still make
  session,      \* the number of this page session
  startedBy,    \* what began this session: "open", "reload" or "reset"
  prevRecord,   \* a11yState as the previous session left it
  lastCall,     \* the last operation and its argument
  prevCall,     \* the one before it
  loadInfo,     \* what the last loadA11ySettings read, and the record before it
  lastGet,      \* the result of the last safeStorage.getItem a host made
  written       \* per key, the last value a host's safeStorage.setItem wrote this session

envVars == << lsMode, ssMode, env, content >>
progVars == << storage, a11yState, page, audio, timers, now, pc >>
histVars ==
  << opsLeft, session, startedBy, prevRecord, lastCall, prevCall, loadInfo, lastGet, written >>
vars == << envVars, progVars, histVars >>

\* The program's mutable state as one record: every function of the source is an
\* operator from such a record (and its arguments) to the record it leaves.
Cur == [ a11yState |-> a11yState, storage |-> storage, page |-> page,
         audio |-> audio, timers |-> timers, now |-> now ]

Commit(r) ==
  /\ a11yState' = r.a11yState
  /\ storage' = r.storage
  /\ page' = r.page
  /\ audio' = r.audio
  /\ timers' = r.timers
  /\ now' = r.now

\* ------------------------------------------------------------ safeStorage

Modes == {"working", "absent", "throwing"}

Put(f, k, v) == [y \in DOMAIN f \cup {k} |-> IF y = k THEN v ELSE f[y]]
Del(f, k) == [y \in DOMAIN f \ {k} |-> f[y]]

\* safeStorage.setItem(key, value): a throwing localStorage ends in the outer
\* catch; sessionStorage is tried only when localStorage is falsy, the memory
\* map only when sessionStorage throws (an absent one throws a TypeError).
setItem(st, key, value) ==
  IF lsMode = "throwing" THEN st
  ELSE IF lsMode = "working" THEN [st EXCEPT !.localStorage = Put(@, key, value)]
  ELSE IF ssMode = "working" THEN [st EXCEPT !.sessionStorage = Put(@, key, value)]
  ELSE [st EXCEPT !.memoryStorage = Put(@, key, value)]

Lookup(f, key) == IF key \in DOMAIN f THEN f[key] ELSE Null

\* safeStorage.getItem(key); the memory tier reads `map && map[key] || null`.
getItem(st, key) ==
  IF lsMode = "throwing" THEN Null
  ELSE IF lsMode = "working" THEN Lookup(st.localStorage, key)
  ELSE IF ssMode = "working" THEN Lookup(st.sessionStorage, key)
  ELSE IF Truthy(Lookup(st.memoryStorage, key)) THEN st.memoryStorage[key]
  ELSE Null

removeItemNone(st, key) == st

\* safeStorage.removeItem(key)
removeItem(st, key) ==
  IF lsMode = "throwing" THEN st
  ELSE IF lsMode = "working" THEN [st EXCEPT !.localStorage = Del(@, key)]
  ELSE IF ssMode = "working" THEN [st EXCEPT !.sessionStorage = Del(@, key)]
  ELSE [st EXCEPT !.memoryStorage = Del(@, key)]

\* The tier a call of safeStorage reaches first, and whether using it throws:
\* a throwing localStorage throws on every use, a falsy one is skipped by
\* `if (localStorage)`; an absent or throwing sessionStorage throws.
FirstTier == IF lsMode = "absent" THEN "sessionStorage" ELSE "localStorage"
TierThrows(tier) ==
  \/ tier = "localStorage" /\ lsMode = "throwing"
  \/ tier = "sessionStorage" /\ ssMode # "working"

HandlersInnerOnly(tier) == IF tier = "sessionStorage" THEN {"inner"} ELSE {}

\* The try blocks that enclose the use of a tier, the same in setItem, getItem
\* and removeItem: the outer one encloses the whole body, the inner one the
\* sessionStorage call.
Handlers(tier) ==
  IF tier = "sessionStorage" THEN {"inner", "outer"} ELSE {"outer"}

\* An exception leaves the function when no try block encloses the throw; the
\* memory map is used in the inner catch block and does not throw.
Surfaces == TierThrows(FirstTier) /\ Handlers(FirstTier) = {}

\* ------------------------------------------------------------ the page

\* The leaf elements of the host page whose text the plugin may rewrite.
Leaves == {"e1"}

\* textContent as (leading whitespace, trimmed text, trailing whitespace).
Txt(core) == [lead |-> 0, core |-> core, trail |-> 0]
Trim(text) == text.core
NonEmpty(text) == text.lead + text.trail > 0 \/ text.core # ""

Min(a, b) == IF a < b THEN a ELSE b
Max(a, b) == IF a > b THEN a ELSE b

\* text.substring(0, n)
Substring(text, n) ==
  LET lead == Min(text.lead, n)
      core == SubSeq(text.core, 1, Min(Len(text.core), n - lead))
  IN  [lead |-> lead, core |-> core,
       trail |-> Max(0, Min(text.trail, n - lead - Len(core)))]

\* An attribute read with getAttribute is null when absent; !value is true for
\* null and for the empty string.
HasValue(attr) == attr # Null /\ NonEmpty(attr)

Viewport == [innerHeight |-> 600]
\* clientY of the pointer positions the model moves the mouse to.
PointerYs == {120}
\* The elements focus can move to ("body": nothing is focused).
Focusable == {"body", "button"}

\* classList.add(c) / classList.remove(c) on the class list of body.
ClassAdd(classes, c) == IF c \in Range(classes) THEN classes ELSE Append(classes, c)
ClassRemove(classes, c) == SelectSeq(classes, LAMBDA y : y # c)

\* `${v}` and v + '...': the string of a value.
Str(v) ==
  IF IsStr(v) THEN v.s
  ELSE IF IsNum(v) THEN NumTok(v.n)
  ELSE IF IsBool(v) THEN (IF v.b THEN "true" ELSE "false")
  ELSE "null"

\* The words (\w+) that follow a marker prefix in a class of body.
Words == ColorSchemes \cup ScreenReaderModes \cup {"null", "true", "false", "dark"}
ColorClasses == {"color-" \o w : w \in Words}
SrClasses == {"sr-optimize-" \o w : w \in Words}

StripColorNone(classes) == classes
StripSrNone(classes) == classes

\* className.replace(/color-\w+/g, '') and className.replace(/sr-optimize-\w+/g, '')
StripColor(classes) == SelectSeq(classes, LAMBDA c : c \notin ColorClasses)
StripSr(classes) == SelectSeq(classes, LAMBDA c : c \notin SrClasses)

AddListenerAlways(ls, type, fn) == Append(ls, << type, fn >>)

\* document.addEventListener(type, fn) with a named function: a listener already
\* registered is not registered again; removeEventListener(type, fn).
AddListener(ls, type, fn) ==
  IF << type, fn >> \in Range(ls) THEN ls ELSE Append(ls, << type, fn >>)
RemoveListenerNone(ls, type, fn) == ls

RemoveListener(ls, type, fn) == SelectSeq(ls, LAMBDA l : l # << type, fn >>)

\* The page a session starts with, after the script has run init(): the
\* DOMContentLoaded listener and the once-only click listener are registered
\* and window.A11yPlugin is set. widgets holds the controls the reconciliation
\* pass and the controls' handlers write, as the panel's markup has them
\* (no checkbox carries the checked attribute); passes counts the runs of
\* applyAllA11ySettings.
FreshPage(texts) ==
  [ bodyClasses |-> <<>>, fontSize |-> Null, textSizeValue |-> Null,
    elems |-> [e \in Leaves |-> [text |-> texts[e], orig |-> Null]],
    labels |-> [e \in Leaves |-> env.controls[e].ariaLabel],
    readingGuideEl |-> FALSE, guideEls |-> 0, guideActive |-> FALSE, guideTop |-> Null,
    tabIndicatorEl |-> FALSE, tabEls |-> 0, tabActive |-> FALSE, tabBox |-> "none",
    listeners |-> << <<"DOMContentLoaded", "initializeAccessibilityControls">>,
                     <<"click", "initAudioOnce">> >>,
    panels |-> 0, filters |-> 0, bindings |-> 0,
    liveRegions |-> 0, liveText |-> "", livePriority |-> "assertive",
    focused |-> "body",
    plugin |-> TRUE, menuOpen |-> FALSE, ariaExpanded |-> "false", passes |-> 0,
    reads |-> 0,
    widgets |-> [ keyboardShortcuts |-> B(FALSE), screenReaderMode |-> S("auto"),
                  announceChanges |-> B(FALSE), ariaLive |-> B(FALSE) ] ]

\* attempts counts the calls of the AudioContext constructor, contexts the
\* contexts they returned.
FreshAudio ==
  [ audioEnabled |-> TRUE, audioContext |-> "null", tones |-> <<>>,
    attempts |-> 0, contexts |-> 0, ariaChecked |-> "none" ]

\* -------------------------------------------------------------- announcer

ensureLiveRegionAlways(s) == [s EXCEPT !.page.liveRegions = @ + 1]

ensureLiveRegion(s) ==
  IF s.page.liveRegions = 0 THEN [s EXCEPT !.page.liveRegions = 1] ELSE s

\* A pending timeout: its callback, the time it is due, the tone a playTone
\* callback starts.
NoTone == [frequency |-> 0, duration |-> 0, type |-> "none"]

setTimeoutCancelling(s, cb, delay, tone) ==
  LET t == [cb |-> cb, due |-> s.now + delay, tone |-> tone]
      kept == SelectSeq(s.timers, LAMBDA x : x.cb # cb \/ x.due <= t.due)
      before == SelectSeq(kept, LAMBDA x : x.due <= t.due)
      after == SelectSeq(kept, LAMBDA x : x.due > t.due)
  IN  [s EXCEPT !.timers = before \o <<t>> \o after]

\* setTimeout(cb, delay): timeouts fire in the order of their due times, those
\* due together in the order they were set.
setTimeout(s, cb, delay, tone) ==
  LET t == [cb |-> cb, due |-> s.now + delay, tone |-> tone]
      before == SelectSeq(s.timers, LAMBDA x : x.due <= t.due)
      after == SelectSeq(s.timers, LAMBDA x : x.due > t.due)
  IN  [s EXCEPT !.timers = before \o <<t>> \o after]

ClearDelay == 1000

announceNoClear(s, message, priority) ==
  [ensureLiveRegion(s) EXCEPT !.page.livePriority = priority, !.page.liveText = message]

announceToScreenReader(s, message, priority) ==
  LET s1 == ensureLiveRegion(s)
  IN  setTimeout([s1 EXCEPT !.page.livePriority = priority,
                            !.page.liveText = message],
                 "clearLive", ClearDelay, NoTone)

\* ------------------------------------------------------------------ audio

\* initAudioContext(): a context is constructed when there is none and the
\* browser has AudioContext; a constructor that throws turns the alerts off.
initAudioContext(s) ==
  IF s.audio.audioContext = "null" /\ env.audioApi # "absent"
  THEN IF env.audioApi = "available"
       THEN [s EXCEPT !.audio.audioContext = "running",
                      !.audio.attempts = @ + 1, !.audio.contexts = @ + 1]
       ELSE [s EXCEPT !.audio.audioEnabled = FALSE, !.audio.attempts = @ + 1]
  ELSE s

playToneWhileMuted(s, frequency, duration, type) ==
  IF s.audio.audioContext = "null" THEN s
  ELSE [s EXCEPT !.audio.tones =
          Append(@, [frequency |-> frequency, duration |-> duration, type |-> type,
                     at |-> s.now])]

\* playTone(frequency, duration, type): frequencies are kept in hundredths of a
\* hertz, durations in milliseconds; oscillator.start(currentTime).
playTone(s, frequency, duration, type) ==
  IF ~s.audio.audioEnabled \/ s.audio.audioContext = "null" THEN s
  ELSE [s EXCEPT !.audio.tones =
          Append(@, [frequency |-> frequency, duration |-> duration, type |-> type,
                     at |-> s.now])]

Tone(frequency, duration, type) ==
  [frequency |-> frequency, duration |-> duration, type |-> type]

playSuccessSoundChord(s) ==
  IF ~s.audio.audioEnabled THEN s
  ELSE playTone(playTone(playTone(s, 52325, 150, "sine"), 65925, 150, "sine"),
                78399, 200, "sine")

playSuccessSound(s) ==
  IF ~s.audio.audioEnabled THEN s
  ELSE LET s1 == playTone(s, 52325, 150, "sine")
           s2 == setTimeout(s1, "playTone", 150, Tone(65925, 150, "sine"))
       IN  setTimeout(s2, "playTone", 300, Tone(78399, 200, "sine"))

playErrorSoundUnguarded(s) ==
  LET s1 == playTone(s, 44000, 100, "square")
      s2 == setTimeout(s1, "playTone", 100, Tone(34923, 150, "square"))
  IN  setTimeout(s2, "playTone", 250, Tone(26163, 200, "square"))

playErrorSound(s) ==
  IF ~s.audio.audioEnabled THEN s
  ELSE LET s1 == playTone(s, 44000, 100, "square")
           s2 == setTimeout(s1, "playTone", 100, Tone(34923, 150, "square"))
       IN  setTimeout(s2, "playTone", 250, Tone(26163, 200, "square"))

playInfoSound(s) ==
  IF ~s.audio.audioEnabled THEN s ELSE playTone(s, 60000, 150, "sine")

\* Boolean.prototype.toString().
BoolString(b) == IF b THEN "true" ELSE "false"

\* toggleAudioAlerts(): the confirmation and the announcement only happen on a
\* page that has an element #audioToggle.
toggleAudioAlerts(s) ==
  LET s1 == [s EXCEPT !.audio.audioEnabled = ~@,
                      !.audio.ariaChecked = IF env.audioToggle THEN BoolString(~s.audio.audioEnabled)
                                            ELSE @]
      s2 == IF ~env.audioToggle THEN s1
            ELSE IF s1.audio.audioEnabled
            THEN announceToScreenReader(
                   setTimeout(initAudioContext(s1), "playInfoSound", 100, NoTone),
                   "Audio alerts enabled.", "polite")
            ELSE announceToScreenReader(s1, "Audio alerts disabled.", "polite")
  IN  [s2 EXCEPT !.storage =
         setItem(@, "audioAlertsEnabled",
                 T(<< IF s2.audio.audioEnabled THEN "true" ELSE "false" >>))]

loadAudioPreference(s) ==
  LET saved == getItem(s.storage, "audioAlertsEnabled")
  IN  IF IsNull(saved) THEN s
      ELSE [s EXCEPT !.audio.audioEnabled = (saved = T(<<"true">>)),
                     !.audio.ariaChecked = IF env.audioToggle
                                           THEN BoolString(saved = T(<<"true">>)) ELSE @]

\* ---------------------------------------------------------- screen reader

detectScreenReaderOsFirst(state) ==
  IF state.screenReaderMode # S("auto") THEN state.screenReaderMode
  ELSE IF env.win THEN S("nvda")
  ELSE IF env.mac \/ env.ios THEN S("voiceover")
  ELSE IF env.android THEN S("talkback")
  ELSE IF env.linux THEN S("orca")
  ELSE S("nvda")

\* detectScreenReader(): the stored mode unless it is 'auto', else the heuristic.
detectScreenReader(state) ==
  IF state.screenReaderMode # S("auto") THEN state.screenReaderMode
  ELSE IF env.voices /\ (env.mac \/ env.ios) THEN S("voiceover")
  ELSE IF env.voices /\ env.win THEN S("narrator")
  ELSE IF env.win THEN S("nvda")
  ELSE IF env.mac \/ env.ios THEN S("voiceover")
  ELSE IF env.android THEN S("talkback")
  ELSE IF env.linux THEN S("orca")
  ELSE S("nvda")

\* The length a voiceover label is cut to.
LabelLength == 50

RepairButtonAlways(s, e) ==
  IF env.controls[e].button /\ Trim(s.page.elems[e].text) = ""
  THEN IF NonEmpty(s.page.elems[e].text) THEN s.page.elems[e].text ELSE Txt("Button")
  ELSE s.page.labels[e]

\* nvda / jaws: a button without aria-label and without visible text gets
\* aria-label = textContent || 'Button'.
RepairButton(s, e) ==
  IF env.controls[e].button /\ ~HasValue(s.page.labels[e])
     /\ Trim(s.page.elems[e].text) = ""
  THEN IF NonEmpty(s.page.elems[e].text) THEN s.page.elems[e].text ELSE Txt("Button")
  ELSE s.page.labels[e]

\* voiceover: an element with a role and neither aria-label nor aria-labelledby
\* gets the first 50 characters of its text, if there are any.
RepairRole(s, e) ==
  IF env.controls[e].role /\ ~HasValue(s.page.labels[e])
     /\ ~HasValue(env.controls[e].labelledby)
     /\ NonEmpty(Substring(s.page.elems[e].text, LabelLength))
  THEN Substring(s.page.elems[e].text, LabelLength)
  ELSE s.page.labels[e]

applyScreenReaderOptimizations(s) ==
  LET srMode == detectScreenReader(s.a11yState)
      s1 == [s EXCEPT !.page.bodyClasses =
               ClassAdd(StripSr(@), "sr-optimize-" \o Str(srMode))]
  IN  IF srMode \in {S("nvda"), S("jaws")}
      THEN [s1 EXCEPT !.page.labels = [e \in DOMAIN @ |-> RepairButton(s1, e)]]
      ELSE IF srMode = S("voiceover")
      THEN [s1 EXCEPT !.page.labels = [e \in DOMAIN @ |-> RepairRole(s1, e)]]
      ELSE s1

\* ---------------------------------------------------------------- settings

saveNothing(s) == s

saveA11ySettings(s) ==
  [s EXCEPT !.storage = setItem(@, "a11ySettings", JSONStringify(s.a11yState))]

\* ------------------------------------------------------------- applicators

SetMarker(classes, enabled, c) ==
  IF Truthy(enabled) THEN ClassAdd(classes, c) ELSE ClassRemove(classes, c)

toggleHighContrast(s, enabled) ==
  LET s1 == [s EXCEPT !.a11yState.highContrast = enabled,
                      !.page.bodyClasses = SetMarker(@, enabled, "high-contrast")]
      s2 == saveA11ySettings(s1)
      s3 == announceToScreenReader(s2,
              IF Truthy(enabled) THEN "High contrast mode enabled"
              ELSE "High contrast mode disabled", "polite")
  IN  IF Truthy(enabled) THEN playInfoSound(s3) ELSE s3

\* style.fontSize = size + '%' is kept only when it is a valid percentage;
\* the value label exists once the panel does.
setTextSize(s, size) ==
  LET s1 == [s EXCEPT !.a11yState.textSize = size,
                      !.page.fontSize = IF IsNum(size) THEN size ELSE @,
                      !.page.textSizeValue = IF s.page.panels > 0 THEN size ELSE @]
  IN  saveA11ySettings(s1)

setColorSchemeWhenAnnouncing(s, scheme) ==
  LET stripped == StripColor(s.page.bodyClasses)
      s1 == [s EXCEPT !.a11yState.colorScheme = scheme,
                      !.page.bodyClasses =
                         IF scheme # S("default")
                         THEN ClassAdd(stripped, "color-" \o Str(scheme))
                         ELSE stripped]
      s2 == saveA11ySettings(s1)
  IN  IF Truthy(s.a11yState.announceChanges)
      THEN announceToScreenReader(s2, "Color scheme changed to " \o Str(scheme), "polite")
      ELSE s2

setColorScheme(s, scheme) ==
  LET stripped == StripColor(s.page.bodyClasses)
      s1 == [s EXCEPT !.a11yState.colorScheme = scheme,
                      !.page.bodyClasses =
                         IF scheme # S("default")
                         THEN ClassAdd(stripped, "color-" \o Str(scheme))
                         ELSE stripped]
      s2 == saveA11ySettings(s1)
  IN  announceToScreenReader(s2, "Color scheme changed to " \o Str(scheme), "polite")

toggleEnhancedFocus(s, enabled) ==
  saveA11ySettings([s EXCEPT !.a11yState.enhancedFocus = enabled,
                             !.page.bodyClasses = SetMarker(@, enabled, "enhanced-focus")])

toggleReduceMotion(s, enabled) ==
  saveA11ySettings([s EXCEPT !.a11yState.reduceMotion = enabled,
                             !.page.bodyClasses = SetMarker(@, enabled, "reduce-motion")])

\* ------------------------------------------------------ simplified language

simpleLanguageMap ==
  [ k \in { "Choose verification mode:", "Automatic (invisible)", "Passkey / WebAuthn",
            "Text question", "Keyboard-only", "Start verification", "Submit", "Cancel",
            "Table of Contents", "Back to top", "Last updated" } |->
      CASE k = "Choose verification mode:" -> "Pick how to verify:"
        [] k = "Automatic (invisible)" -> "Automatic"
        [] k = "Passkey / WebAuthn" -> "Use passkey"
        [] k = "Text question" -> "Text question"
        [] k = "Keyboard-only" -> "Keyboard only"
        [] k = "Start verification" -> "Start"
        [] k = "Submit" -> "Send"
        [] k = "Cancel" -> "Stop"
        [] k = "Table of Contents" -> "Contents"
        [] k = "Back to top" -> "Top"
        [] k = "Last updated" -> "Updated" ]

\* Names every object literal inherits from Object.prototype: simpleLanguageMap[k]
\* is a function for them, and a function assigned to textContent is its source.
InheritedText ==
  [ k \in {"toString", "constructor"} |->
      IF k = "toString" THEN "function toString() { [native code] }"
      ELSE "function Object() { [native code] }" ]

\* simpleLanguageMap[text]: Null where the lookup is undefined.
MapLookup(text) ==
  IF text \in DOMAIN simpleLanguageMap THEN S(simpleLanguageMap[text])
  ELSE IF text \in DOMAIN InheritedText THEN S(InheritedText[text])
  ELSE Null

\* The body of applySimpleLanguage's forEach on one leaf element.
Simplify(el) ==
  IF NonEmpty(el.text) /\ Truthy(MapLookup(Trim(el.text)))
  THEN [text |-> Txt(MapLookup(Trim(el.text)).s), orig |-> Txt(Trim(el.text))]
  ELSE el

\* The body of removeSimpleLanguage's forEach on one element.
Restore(el) ==
  IF el.orig # Null THEN [text |-> el.orig, orig |-> Null] ELSE el

applySimpleLanguage(s) ==
  [s EXCEPT !.page.elems = [e \in DOMAIN @ |-> Simplify(@[e])]]

removeSimpleLanguage(s) ==
  [s EXCEPT !.page.elems = [e \in DOMAIN @ |-> Restore(@[e])]]

toggleSimpleLanguage(s, enabled) ==
  LET s1 == [s EXCEPT !.a11yState.simpleLanguage = enabled]
      s2 == IF Truthy(enabled) THEN applySimpleLanguage(s1) ELSE removeSimpleLanguage(s1)
      s3 == saveA11ySettings(s2)
  IN  announceToScreenReader(s3,
        IF Truthy(enabled) THEN "Simplified language enabled"
        ELSE "Simplified language disabled", "polite")

\* ------------------------------------------------------------ reading guide

\* updateReadingGuide(e): y is e.clientY, or the middle of the window without e.
updateReadingGuide(s, y) ==
  IF ~s.page.readingGuideEl \/ ~Truthy(s.a11yState.readingGuide) THEN s
  ELSE [s EXCEPT !.page.guideTop = N(y - 15)]

CreateGuideAlways(pg) == [pg EXCEPT !.readingGuideEl = TRUE, !.guideEls = @ + 1]

\* if (!readingGuideEl) { create the overlay and append it to body }
CreateGuide(pg) ==
  IF ~pg.readingGuideEl THEN [pg EXCEPT !.readingGuideEl = TRUE, !.guideEls = @ + 1]
  ELSE pg

toggleReadingGuide(s, enabled) ==
  LET s1 == [s EXCEPT !.a11yState.readingGuide = enabled]
      s2 == IF Truthy(enabled)
            THEN LET a == [s1 EXCEPT !.page = [CreateGuide(@) EXCEPT !.guideActive = TRUE]]
                     b == updateReadingGuide(a, Viewport.innerHeight \div 2)
                 IN  [b EXCEPT !.page.listeners =
                        AddListener(AddListener(@, "mousemove", "updateReadingGuide"),
                                    "keydown", "updateReadingGuideOnKey")]
            ELSE [s1 EXCEPT !.page.guideActive = IF s1.page.readingGuideEl THEN FALSE ELSE @,
                            !.page.listeners =
                              RemoveListener(RemoveListener(@, "mousemove", "updateReadingGuide"),
                                             "keydown", "updateReadingGuideOnKey")]
  IN  saveA11ySettings(s2)

\* ---------------------------------------------------------------- tab order

updateTabIndicatorUnguarded(s) ==
  IF ~s.page.tabIndicatorEl THEN s
  ELSE IF s.page.focused # "body"
  THEN [s EXCEPT !.page.tabBox = s.page.focused, !.page.tabActive = TRUE]
  ELSE s

\* updateTabIndicator(): the overlay takes the box of the focused element.
updateTabIndicator(s) ==
  IF ~s.page.tabIndicatorEl \/ ~Truthy(s.a11yState.tabOrder) THEN s
  ELSE IF s.page.focused # "body"
  THEN [s EXCEPT !.page.tabBox = s.page.focused, !.page.tabActive = TRUE]
  ELSE s

CreateTabIndicator(pg) ==
  IF ~pg.tabIndicatorEl THEN [pg EXCEPT !.tabIndicatorEl = TRUE, !.tabEls = @ + 1]
  ELSE pg

toggleTabOrder(s, enabled) ==
  LET s1 == [s EXCEPT !.a11yState.tabOrder = enabled]
      s2 == IF Truthy(enabled)
            THEN LET a == [s1 EXCEPT !.page = CreateTabIndicator(@)]
                     b == updateTabIndicator(a)
                 IN  [b EXCEPT !.page.listeners =
                        AddListener(AddListener(@, "keydown", "handleTabOrderKey"),
                                    "focusin", "updateTabIndicator")]
            ELSE [s1 EXCEPT !.page.tabActive = IF s1.page.tabIndicatorEl THEN FALSE ELSE @,
                            !.page.listeners =
                              RemoveListener(RemoveListener(@, "keydown", "handleTabOrderKey"),
                                             "focusin", "updateTabIndicator")]
  IN  saveA11ySettings(s2)

\* ------------------------------------------------------- load, apply, reset

\* The controls of the injected panel that no statement of the startup path
\* writes: the checkboxes carry no checked attribute, the slider has
\* value="100", the first option of the color-scheme select is "default".
MarkupWidgets ==
  [ highContrast |-> B(FALSE), textSize |-> N(100), colorScheme |-> S("default"),
    enhancedFocus |-> B(FALSE), reduceMotion |-> B(FALSE), simpleLanguage |-> B(FALSE),
    readingGuide |-> B(FALSE), tabOrder |-> B(FALSE) ]

\* select.value = v shows v when it is one of the options, else nothing.
SelectValue(v) == IF v \in {S(m) : m \in ScreenReaderModes} THEN v ELSE S("")

\* The end of applyAllA11ySettings: the keyboardShortcuts, announceChanges and
\* ariaLive checkboxes and the screenReaderMode select are set from the record.
syncWidgets(s) ==
  [s EXCEPT
     !.page.widgets =
       [ keyboardShortcuts |-> B(s.a11yState.keyboardShortcuts # B(FALSE)),
         screenReaderMode |-> SelectValue(s.a11yState.screenReaderMode),
         announceChanges |-> B(Truthy(s.a11yState.announceChanges)),
         ariaLive |-> B(Truthy(s.a11yState.ariaLive)) ],
     !.page.passes = @ + 1]

\* apply(a11yState.key): the applicator is called with the value the record
\* holds for its key when the call is made.
Reapply(s, key, apply(_, _)) ==
  CHOOSE r \in {apply(x, x.a11yState[key]) : x \in {s}} : TRUE

applyAllA11ySettings(s) ==
  LET s1 == Reapply(s, "highContrast", toggleHighContrast)
      s2 == Reapply(s1, "textSize", setTextSize)
      s3 == Reapply(s2, "colorScheme", setColorScheme)
      s4 == Reapply(s3, "enhancedFocus", toggleEnhancedFocus)
      s5 == Reapply(s4, "reduceMotion", toggleReduceMotion)
      s6 == Reapply(s5, "simpleLanguage", toggleSimpleLanguage)
      s7 == Reapply(s6, "readingGuide", toggleReadingGuide)
      s8 == Reapply(s7, "tabOrder", toggleTabOrder)
  IN  applyScreenReaderOptimizations(syncWidgets(s8))

\* if (keyboardShortcuts === undefined || keyboardShortcuts === null) keyboardShortcuts = true
Backfill(state) ==
  [state EXCEPT !.keyboardShortcuts = IF IsNull(@) THEN B(TRUE) ELSE @]

\* How loadA11ySettings finds the snapshot.
LoadKind(saved) ==
  IF ~Truthy(saved) THEN "absent"
  ELSE IF JSONParse(saved).ok THEN "parsed" ELSE "unparseable"

ShortcutsOff(state) == [state EXCEPT !.keyboardShortcuts = B(FALSE)]

\* a11yState.keyboardShortcuts = true, on both paths that apply no snapshot.
ShortcutsOn(state) == [state EXCEPT !.keyboardShortcuts = B(TRUE)]

loadA11ySettingsDiscarding(s) ==
  LET saved == getItem(s.storage, "a11ySettings")
  IN  IF LoadKind(saved) = "parsed"
      THEN applyAllA11ySettings(
             [s EXCEPT !.a11yState = Backfill(ObjectAssign(@, JSONParse(saved).obj)),
                       !.page.reads = @ + 1])
      ELSE [s EXCEPT !.a11yState = ShortcutsOn(@), !.page.reads = @ + 1,
                     !.storage = IF LoadKind(saved) = "unparseable"
                                 THEN removeItem(@, "a11ySettings") ELSE @]

\* page.reads counts the calls of safeStorage.getItem('a11ySettings').
loadA11ySettings(s) ==
  LET saved == getItem(s.storage, "a11ySettings")
  IN  IF LoadKind(saved) = "parsed"
      THEN applyAllA11ySettings(
             [s EXCEPT !.a11yState = Backfill(ObjectAssign(@, JSONParse(saved).obj)),
                       !.page.reads = @ + 1])
      ELSE [s EXCEPT !.a11yState = ShortcutsOn(@), !.page.reads = @ + 1]

\* resetA11ySettings() up to location.reload()
resetBothEntries(s) ==
  [s EXCEPT !.storage = removeItem(removeItem(@, "a11ySettings"), "audioAlertsEnabled")]

resetA11ySettings(s) ==
  [s EXCEPT !.storage = removeItem(@, "a11ySettings")]

\* ------------------------------------------------------------ initialization

\* setupKeyboardShortcuts() registers a new closure each time it runs.
setupKeyboardShortcuts(s) ==
  [s EXCEPT !.page.listeners = Append(@, <<"keydown", "shortcuts">>)]

injectAccessibilityPanelAlways(s) == [s EXCEPT !.page.panels = @ + 1]

\* injectAccessibilityPanel(): nothing when an element with id a11yToggle
\* exists, the host's or the one of a panel injected before.
injectAccessibilityPanel(s) ==
  [s EXCEPT !.page.panels = IF env.hostToggle \/ @ > 0 THEN @ ELSE 1]

injectSVGFilters(s) == [s EXCEPT !.page.filters = IF @ > 0 THEN @ ELSE 1]

\* getElementById('a11yToggle') and getElementById('a11yMenu') both find an
\* element: the host's two, or the two of the injected panel.
ControlsFound(s) == (env.hostToggle /\ env.hostMenu) \/ s.page.panels > 0

RetryDelay == 100

\* initializeAccessibilityControls(): the panel, the filters and the live
\* region are ensured; without both controls the function schedules itself
\* again and returns; else the handlers are bound and the settings loaded.
initializeAccessibilityControls(s) ==
  LET s2 == ensureLiveRegion(injectSVGFilters(injectAccessibilityPanel(s)))
  IN  IF ~ControlsFound(s2)
      THEN setTimeout(s2, "initializeAccessibilityControls", RetryDelay, NoTone)
      ELSE LET s3 == [s2 EXCEPT !.page.bindings = @ + 1,
                                !.page.listeners =
                                  Append(@, <<"click", "closeOnOutsideClick">>)]
               s4 == loadA11ySettings(s3)
               s5 == loadAudioPreference(s4)
               s6 == setupKeyboardShortcuts(s5)
           IN  applyScreenReaderOptimizations(s6)

\* init(): initialization waits for DOMContentLoaded while the document is
\* loading; the once-only click listener is a new closure each time.
init(s, loading) ==
  [ (IF loading
     THEN [s EXCEPT !.page.listeners =
             Append(@, <<"DOMContentLoaded", "initializeAccessibilityControls">>)]
     ELSE initializeAccessibilityControls(s))
    EXCEPT !.page.listeners = Append(@, <<"click", "initAudioOnce">>) ]

runScriptUnguarded(s, loading) == [init(s, loading) EXCEPT !.page.plugin = TRUE]

\* The script: it returns at once when window.A11yPlugin.initialized is set,
\* else it runs init() and sets window.A11yPlugin.
runScript(s, loading) ==
  IF s.page.plugin THEN s ELSE [init(s, loading) EXCEPT !.page.plugin = TRUE]

\* The click handler of #a11yToggle: the menu opens or closes; an opened menu
\* is focused after 50 ms.
toggleClick(s) ==
  LET s1 == [s EXCEPT !.page.menuOpen = ~@,
                      !.page.ariaExpanded = BoolString(~s.page.menuOpen)]
  IN  IF s1.page.menuOpen THEN setTimeout(s1, "focusMenu", 50, NoTone) ELSE s1

closeOnOutsideClickSilent(s) == [s EXCEPT !.page.menuOpen = FALSE]

\* The document's click listener, for a click outside #a11yMenu and
\* #a11yToggle: an open menu is closed and aria-expanded set to 'false'.
closeOnOutsideClick(s) ==
  IF s.page.menuOpen
  THEN [s EXCEPT !.page.menuOpen = FALSE, !.page.ariaExpanded = "false"]
  ELSE s

shortcutsKeydownUngated(s, key) ==
  IF key = "Alt+A" THEN toggleClick(s)
  ELSE IF key = "Escape" /\ s.page.menuOpen THEN toggleClick(s)
  ELSE s

\* The keydown listener of setupKeyboardShortcuts.
shortcutsKeydown(s, key) ==
  IF ~Truthy(s.a11yState.keyboardShortcuts) THEN s
  ELSE IF key = "Alt+A" THEN toggleClick(s)
  ELSE IF key = "Escape" /\ s.page.menuOpen THEN toggleClick(s)
  ELSE s

\* A keydown event reaches every registered shortcuts listener.
Keydown(s, key) ==
  LET n == Cardinality({i \in DOMAIN s.page.listeners :
                          s.page.listeners[i] = <<"keydown", "shortcuts">>})
  IN  IF n = 0 THEN s
      ELSE IF n = 1 THEN shortcutsKeydown(s, key)
      ELSE shortcutsKeydown(shortcutsKeydown(s, key), key)

\* rect.top + rect.height / 2 of the focused element, as the page lays it out.
FocusedMidY(el) == IF el = "button" THEN 120 ELSE Viewport.innerHeight \div 2

\* The callback of a timeout that is due, other than the retry of the
\* initialization.
RunTimer(s, t) ==
  IF t.cb = "clearLive" THEN [s EXCEPT !.page.liveText = ""]
  ELSE IF t.cb = "playTone" THEN playTone(s, t.tone.frequency, t.tone.duration, t.tone.type)
  ELSE IF t.cb = "focusMenu" THEN [s EXCEPT !.page.focused = "a11yMenu"]
  ELSE IF t.cb = "updateTabIndicator" THEN updateTabIndicator(s)
  ELSE IF t.cb = "updateReadingGuideOnKey"
  THEN updateReadingGuide(s, FocusedMidY(s.page.focused))
  ELSE playInfoSound(s)

\* ------------------------------------------------------------ environments

\* The (localStorage, sessionStorage) configurations of the settings behaviours:
\* sessionStorage is only reached when localStorage is falsy, and an absent
\* sessionStorage throws like a throwing one.
StoreConfigs ==
  { <<"working", "working">>, <<"absent", "working">>,
    <<"absent", "throwing">>, <<"throwing", "working">> }

Truncated(text) == T(SubSeq(text.t, 1, Len(text.t) - 1))

\* What an earlier session, or anything else writing the store, may have left.
PartialSnapshot ==
  JSONStringify([colorScheme |-> S("protanopia"), readingGuide |-> B(TRUE),
                 simpleLanguage |-> B(TRUE)])
NullSnapshot ==
  JSONStringify([textSize |-> Null, keyboardShortcuts |-> Null, highContrast |-> B(TRUE)])
UnknownKeySnapshot ==
  JSONStringify([theme |-> S("dark"), textSize |-> N(150), keyboardShortcuts |-> B(FALSE)])

InitStores ==
  { EmptyObj,
    [a11ySettings |-> Truncated(PartialSnapshot), audioAlertsEnabled |-> T(<<"false">>)],
    [a11ySettings |-> PartialSnapshot],
    [a11ySettings |-> NullSnapshot, audioAlertsEnabled |-> T(<<"true">>)],
    [a11ySettings |-> UnknownKeySnapshot] }

\* The host page's markup of a leaf element: a button without attributes.
PlainButton == [button |-> TRUE, role |-> FALSE, ariaLabel |-> Null, labelledby |-> Null]

\* Windows without speech voices, Web Audio available, a page without #audioToggle
\* and without accessibility controls of its own.
DefaultEnv ==
  [win |-> TRUE, mac |-> FALSE, ios |-> FALSE, android |-> FALSE, linux |-> FALSE,
   voices |-> FALSE, audioApi |-> "available", audioToggle |-> FALSE,
   hostToggle |-> FALSE, hostMenu |-> FALSE,
   controls |-> [e \in Leaves |-> PlainButton]]

Pads == 0 .. MaxPad
TextCores == {"Submit", "Text question", "Please Submit the form", "Send", "toString", ""}
PageTexts == {[lead |-> l, core |-> c, trail |-> r] : l \in Pads, c \in TextCores, r \in Pads}

\* The store a browser in configuration (ls, ss) starts with: the tier the
\* plugin reads holds what earlier sessions left.
InitialStorage(ls, ss, left) ==
  [ localStorage |-> IF ls = "working" THEN left ELSE EmptyObj,
    sessionStorage |-> IF ls = "absent" /\ ss = "working" THEN left ELSE EmptyObj,
    memoryStorage |-> EmptyObj ]

NoCall == [op |-> "script", arg |-> Null]
NoLoad == [kind |-> "none", before |-> Defaults, read |-> Null, obj |-> EmptyObj]

\* The state right after the script has run in a newly opened page.
Boot(budget) ==
  /\ a11yState = Defaults
  /\ page = FreshPage(content)
  /\ audio = FreshAudio
  /\ timers = <<>>
  /\ now = 0
  /\ pc = "loading"
  /\ opsLeft = budget
  /\ session = 1
  /\ startedBy = "open"
  /\ prevRecord = Defaults
  /\ lastCall = NoCall
  /\ prevCall = NoCall
  /\ loadInfo = NoLoad
  /\ lastGet = Null
  /\ written = EmptyObj

Init ==
  /\ \E c \in StoreConfigs, left \in InitStores :
       /\ lsMode = c[1]
       /\ ssMode = c[2]
       /\ storage = InitialStorage(c[1], c[2], left)
  /\ env = DefaultEnv
  /\ content = [e \in Leaves |-> [lead |-> 1, core |-> "Submit", trail |-> 1]]
  /\ Boot(MaxOps)

\* ---------------------------------------------------------------- actions

Called(op, arg) ==
  /\ lastCall' = [op |-> op, arg |-> arg]
  /\ prevCall' = lastCall

\* A call of a function of the plugin, by a control's handler or by the host.
Call(op, arg, r) ==
  /\ opsLeft > 0
  /\ opsLeft' = opsLeft - 1
  /\ Commit(r)
  /\ Called(op, arg)
  /\ UNCHANGED << envVars, pc, session, startedBy, prevRecord, loadInfo, lastGet, written >>

\* The three setters window.A11yPlugin exports can be called as soon as the
\* script has run; the controls' handlers are bound by initialization.
ToggleHighContrast ==
  \E v \in BOOLEAN : Call("toggleHighContrast", B(v), toggleHighContrast(Cur, B(v)))

SetTextSize ==
  \E v \in TextSizes : Call("setTextSize", N(v), setTextSize(Cur, N(v)))

SetColorScheme ==
  \E v \in ColorSchemes : Call("setColorScheme", S(v), setColorScheme(Cur, S(v)))

ToggleEnhancedFocus ==
  /\ pc = "ready"
  /\ \E v \in BOOLEAN : Call("toggleEnhancedFocus", B(v), toggleEnhancedFocus(Cur, B(v)))

ToggleReduceMotion ==
  /\ pc = "ready"
  /\ \E v \in BOOLEAN : Call("toggleReduceMotion", B(v), toggleReduceMotion(Cur, B(v)))

ToggleSimpleLanguage ==
  /\ pc = "ready"
  /\ \E v \in BOOLEAN : Call("toggleSimpleLanguage", B(v), toggleSimpleLanguage(Cur, B(v)))

ToggleReadingGuide ==
  /\ pc = "ready"
  /\ \E v \in BOOLEAN : Call("toggleReadingGuide", B(v), toggleReadingGuide(Cur, B(v)))

ToggleTabOrder ==
  /\ pc = "ready"
  /\ \E v \in BOOLEAN : Call("toggleTabOrder", B(v), toggleTabOrder(Cur, B(v)))

\* The change handlers that write the record themselves.
KeyboardShortcutsChange ==
  /\ pc = "ready"
  /\ \E v \in BOOLEAN :
       Call("keyboardShortcuts", B(v),
            saveA11ySettings([Cur EXCEPT !.a11yState.keyboardShortcuts = B(v),
                                         !.page.widgets.keyboardShortcuts = B(v)]))

ScreenReaderModeChange ==
  /\ pc = "ready"
  /\ \E v \in ScreenReaderModes :
       Call("screenReaderMode", S(v),
            saveA11ySettings(applyScreenReaderOptimizations(
              [Cur EXCEPT !.a11yState.screenReaderMode = S(v),
                          !.page.widgets.screenReaderMode = S(v)])))

AnnounceChangesChange ==
  /\ pc = "ready"
  /\ \E v \in BOOLEAN :
       Call("announceChanges", B(v),
            saveA11ySettings([Cur EXCEPT !.a11yState.announceChanges = B(v),
                                         !.page.widgets.announceChanges = B(v)]))

AriaLiveChange ==
  /\ pc = "ready"
  /\ \E v \in BOOLEAN :
       Call("ariaLive", B(v),
            saveA11ySettings([Cur EXCEPT !.a11yState.ariaLive = B(v),
                                         !.page.widgets.ariaLive = B(v)]))

\* DOMContentLoaded (or the script's own call when the document is already
\* parsed): initializeAccessibilityControls runs, and with it loadA11ySettings.
\* What a loadA11ySettings that runs now reads.
LoadNow ==
  LET saved == getItem(storage, "a11ySettings")
  IN  [ kind |-> LoadKind(saved), before |-> a11yState, read |-> saved,
        obj |-> IF LoadKind(saved) = "parsed" THEN JSONParse(saved).obj ELSE EmptyObj ]

\* A run of initializeAccessibilityControls that leaves r: the page is ready
\* once the handlers are bound, and then the settings have been loaded.
Attempt(r) ==
  /\ Commit(r)
  /\ pc' = IF page'.bindings > 0 THEN "ready" ELSE "retrying"
  /\ loadInfo' = IF page'.bindings > 0 THEN LoadNow ELSE loadInfo

\* DOMContentLoaded finds the state as it is; a retry runs when its timeout,
\* the next one pending, is due. The retries that find the controls missing
\* are followed up to MaxRetries; one that finds them is always followed.
InitEntry ==
  IF pc = "loading" THEN Cur
  ELSE [Cur EXCEPT !.timers = Tail(timers), !.now = Head(timers).due]

AttemptDue ==
  /\ pc # "ready"
  /\ pc = "retrying" =>
       /\ timers # <<>>
       /\ Head(timers).cb = "initializeAccessibilityControls"
       /\ Head(timers).due <= MaxRetries * RetryDelay \/ ControlsFound(Cur)

Initialize ==
  /\ AttemptDue
  /\ Attempt(initializeAccessibilityControls(InitEntry))
  /\ Called("init", Null)
  /\ UNCHANGED << envVars, opsLeft, session, startedBy, prevRecord, lastGet, written >>

\* A new page session over the store st: the script runs again, the record, the
\* document and window._memoryStorage are new, the two browser stores are kept.
NewSession(st, why) ==
  /\ session < MaxSessions
  /\ session' = session + 1
  /\ startedBy' = why
  /\ prevRecord' = a11yState
  /\ storage' = [st EXCEPT !.memoryStorage = EmptyObj]
  /\ a11yState' = Defaults
  /\ page' = FreshPage(content)
  /\ audio' = FreshAudio
  /\ timers' = <<>>
  /\ now' = 0
  /\ pc' = "loading"
  /\ lastCall' = NoCall
  /\ prevCall' = lastCall
  /\ loadInfo' = NoLoad
  /\ written' = EmptyObj
  /\ UNCHANGED << envVars, opsLeft, lastGet >>

\* The reset button: resetA11ySettings() removes the snapshot and reloads.
ResetA11ySettings ==
  /\ pc = "ready"
  /\ NewSession(resetA11ySettings(Cur).storage, "reset")

\* The user reloads the page.
Reload == NewSession(storage, "reload")

\* The next pending timeout fires when it is due.
TimerFires ==
  /\ timers # <<>>
  /\ Head(timers).cb # "initializeAccessibilityControls"
  /\ Commit(RunTimer([Cur EXCEPT !.timers = Tail(timers), !.now = Head(timers).due],
                     Head(timers)))
  /\ UNCHANGED << envVars, pc, histVars >>

\* Half a second passes in which no timeout is due.
Tick ==
  /\ now + ClearDelay \div 2 <= MaxTicks * (ClearDelay \div 2)
  /\ timers # <<>> => now + ClearDelay \div 2 <= Head(timers).due
  /\ now' = now + ClearDelay \div 2
  /\ UNCHANGED << envVars, storage, a11yState, page, audio, timers, pc, histVars >>

\* The host page adds the #a11yMenu its own #a11yToggle lacked.
HostInsertsMenu ==
  /\ env.hostToggle
  /\ ~env.hostMenu
  /\ env' = [env EXCEPT !.hostMenu = TRUE]
  /\ UNCHANGED << lsMode, ssMode, content, progVars, histVars >>

\* The script element is executed once more in the same page. The page
\* becomes ready, and the settings are loaded, only if this execution binds
\* the handlers.
RunScriptAgain ==
  /\ opsLeft > 0
  /\ opsLeft' = opsLeft - 1
  /\ Commit(runScript(Cur, pc = "loading"))
  /\ pc' = IF page'.bindings > page.bindings THEN "ready" ELSE pc
  /\ loadInfo' = IF page'.bindings > page.bindings THEN LoadNow ELSE loadInfo
  /\ Called("scriptAgain", Null)
  /\ UNCHANGED << envVars, session, startedBy, prevRecord, lastGet, written >>

\* window.A11yPlugin.announceToScreenReader(message), called by the host.
Messages == {"X", "Y"}

AnnounceToScreenReader ==
  \E m \in Messages :
    Call("announceToScreenReader",
         [message |-> m, at |-> now, timers |-> Len(timers)],
         announceToScreenReader(Cur, m, "polite"))

\* The user presses Alt+A or Escape.
KeyPress ==
  \E key \in {"Alt+A", "Escape"} :
    Call("keydown", [key |-> key, open |-> page.menuOpen], Keydown(Cur, key))

\* The user clicks #a11yToggle, once the click handler is bound.
ToggleClick ==
  /\ pc = "ready"
  /\ Call("toggleClick", [open |-> page.menuOpen], toggleClick(Cur))

\* The first click on the page: the once-only listener constructs the context.
UserClick ==
  /\ <<"click", "initAudioOnce">> \in Range(page.listeners)
  /\ LET s1 == [Cur EXCEPT !.page.listeners = RemoveListener(@, "click", "initAudioOnce")]
     IN  Commit(IF s1.audio.audioContext = "null" THEN initAudioContext(s1) ELSE s1)
  /\ Called("click", Null)
  /\ UNCHANGED << envVars, pc, opsLeft, session, startedBy, prevRecord, loadInfo, lastGet,
                  written >>

\* The once-only click listener of the document, where it is still registered.
initAudioOnce(s) ==
  IF <<"click", "initAudioOnce">> \in Range(s.page.listeners)
  THEN LET s1 == [s EXCEPT !.page.listeners = RemoveListener(@, "click", "initAudioOnce")]
       IN  IF s1.audio.audioContext = "null" THEN initAudioContext(s1) ELSE s1
  ELSE s

\* The user clicks on the page outside the menu and its toggle: the click
\* reaches the document's listeners in the order they were registered.
OutsideClick ==
  /\ <<"click", "closeOnOutsideClick">> \in Range(page.listeners)
  /\ Call("outsideClick", [open |-> page.menuOpen], closeOnOutsideClick(initAudioOnce(Cur)))

\* Whether a timeout that will start a tone is pending.
TonePending == \E i \in DOMAIN timers : timers[i].cb \in {"playTone", "playInfoSound"}

\* What a call of an alert sound finds: the time, the tones started so far,
\* whether no tone of an earlier call is still to come.
SoundArg == [at |-> now, tones |-> Len(audio.tones), clean |-> ~TonePending]

\* The alert sounds and the audio toggle that window.A11yPlugin exports.
PlaySuccessSound == Call("playSuccessSound", SoundArg, playSuccessSound(Cur))

PlayErrorSound == Call("playErrorSound", SoundArg, playErrorSound(Cur))

PlayInfoSound == Call("playInfoSound", SoundArg, playInfoSound(Cur))

ToggleAudioAlerts ==
  Call("toggleAudioAlerts",
       [was |-> audio.audioEnabled, tones |-> Len(audio.tones), at |-> now],
       toggleAudioAlerts(Cur))

\* An arrow key goes down: updateReadingGuideOnKey defers the update by 100 ms.
ArrowKey ==
  /\ <<"keydown", "updateReadingGuideOnKey">> \in Range(page.listeners)
  /\ Call("keydown", S("ArrowDown"),
          setTimeout(Cur, "updateReadingGuideOnKey", 100, NoTone))

\* The Tab key goes down: handleTabOrderKey defers updateTabIndicator by 50 ms.
TabKey ==
  /\ <<"keydown", "handleTabOrderKey">> \in Range(page.listeners)
  /\ Call("keydown", S("Tab"), setTimeout(Cur, "updateTabIndicator", 50, NoTone))

\* A mousemove event: updateReadingGuide(e) runs where it is registered.
MouseMove ==
  /\ <<"mousemove", "updateReadingGuide">> \in Range(page.listeners)
  /\ \E y \in PointerYs :
       /\ Commit(updateReadingGuide(Cur, y))
       /\ Called("mousemove", N(y))
  /\ UNCHANGED << envVars, pc, opsLeft, session, startedBy, prevRecord, loadInfo, lastGet,
                  written >>

\* Focus moves to another element: focusin runs updateTabIndicator where it is
\* registered.
FocusIn ==
  \E el \in Focusable \ {page.focused} :
    /\ LET moved == [Cur EXCEPT !.page.focused = el]
       IN  Commit(IF <<"focusin", "updateTabIndicator">> \in Range(page.listeners)
                  THEN updateTabIndicator(moved) ELSE moved)
    /\ Called("focusin", S(el))
    /\ UNCHANGED << envVars, pc, opsLeft, session, startedBy, prevRecord, loadInfo, lastGet,
                    written >>

\* The host uses window.safeStorage itself.
StoreKeys == {"a11ySettings", "hostKey"}
StoreValues == {T(<<"true">>), T(<<"{", "}">>), T(<<>>)}

HostStep(op, key, st) ==
  /\ opsLeft > 0
  /\ opsLeft' = opsLeft - 1
  /\ storage' = IF Surfaces THEN storage ELSE st
  /\ Called(op, [s |-> key, threw |-> Surfaces])
  /\ UNCHANGED << envVars, a11yState, page, audio, timers, now, pc, session, startedBy,
                  prevRecord, loadInfo >>

HostSetItem ==
  \E k \in StoreKeys, v \in StoreValues :
    /\ HostStep("setItem", k, setItem(storage, k, v))
    /\ written' = Put(written, k, v)
    /\ UNCHANGED lastGet

HostGetItem ==
  \E k \in StoreKeys :
    /\ HostStep("getItem", k, storage)
    /\ lastGet' = IF Surfaces THEN lastGet ELSE getItem(storage, k)
    /\ UNCHANGED written

HostRemoveItem ==
  \E k \in StoreKeys :
    /\ HostStep("removeItem", k, removeItem(storage, k))
    /\ written' = Del(written, k)
    /\ UNCHANGED lastGet

Next ==
  \/ Initialize
  \/ ToggleHighContrast
  \/ SetTextSize
  \/ SetColorScheme
  \/ ToggleEnhancedFocus
  \/ ToggleReduceMotion
  \/ ToggleSimpleLanguage
  \/ ToggleReadingGuide
  \/ ToggleTabOrder
  \/ KeyboardShortcutsChange
  \/ ScreenReaderModeChange
  \/ AnnounceChangesChange
  \/ AriaLiveChange
  \/ ResetA11ySettings
  \/ Reload

\* The settings lifecycle: every mutation, initialization, reset and reload, over
\* every store configuration and everything an earlier session may have left.
Spec == Init /\ [][Next]_vars

\* The applicators and the events their listeners take, on a page with a working
\* store.
FeaturePages ==
  { [lead |-> 1, core |-> "Submit", trail |-> 1], Txt("Text question"), Txt("toString") }

InitFeatures ==
  /\ lsMode = "working"
  /\ ssMode = "working"
  /\ \E left \in {EmptyObj, [a11ySettings |-> PartialSnapshot]} :
       storage = InitialStorage("working", "working", left)
  /\ env = DefaultEnv
  /\ \E text \in FeaturePages : content = [e \in Leaves |-> text]
  /\ Boot(MaxCalls)

NextFeatures ==
  \/ Initialize
  \/ ToggleHighContrast
  \/ SetTextSize
  \/ SetColorScheme
  \/ ToggleEnhancedFocus
  \/ ToggleReduceMotion
  \/ ToggleSimpleLanguage
  \/ ToggleReadingGuide
  \/ ToggleTabOrder
  \/ MouseMove
  \/ FocusIn

SpecFeatures == InitFeatures /\ [][NextFeatures]_vars

\* Simplified language over every text a leaf element may hold.
InitLanguage ==
  /\ lsMode = "working"
  /\ ssMode = "working"
  /\ \E left \in {EmptyObj, [a11ySettings |-> PartialSnapshot]} :
       storage = InitialStorage("working", "working", left)
  /\ env = DefaultEnv
  /\ \E text \in PageTexts : content = [e \in Leaves |-> text]
  /\ Boot(MaxCalls + 1)

NextLanguage ==
  \/ Initialize
  \/ ToggleSimpleLanguage
  \/ TimerFires

SpecLanguage == InitLanguage /\ [][NextLanguage]_vars

\* The tiered store alone, used through window.safeStorage, in every
\* configuration of the two browser stores.
InitStore ==
  /\ \E ls \in Modes, ss \in Modes,
        left \in {EmptyObj, [a11ySettings |-> PartialSnapshot, hostKey |-> T(<<"true">>)]} :
       /\ lsMode = ls
       /\ ssMode = ss
       /\ storage = InitialStorage(ls, ss, left)
  /\ env = DefaultEnv
  /\ content = [e \in Leaves |-> Txt("Submit")]
  /\ Boot(MaxCalls + 1)

NextStore ==
  \/ HostSetItem
  \/ HostGetItem
  \/ HostRemoveItem

SpecStore == InitStore /\ [][NextStore]_vars

\* Screen-reader detection over every environment: each combination of the
\* user agent's platform signatures, with and without speech voices.
DetectEnvs ==
  { [DefaultEnv EXCEPT !.win = w, !.mac = m, !.ios = i, !.android = a, !.linux = l,
                       !.voices = v] :
      w \in BOOLEAN, m \in BOOLEAN, i \in BOOLEAN, a \in BOOLEAN, l \in BOOLEAN,
      v \in BOOLEAN }

JawsSnapshot == JSONStringify([screenReaderMode |-> S("jaws")])

InitDetect ==
  /\ lsMode = "working"
  /\ ssMode = "working"
  /\ \E left \in {EmptyObj, [a11ySettings |-> JawsSnapshot]} :
       storage = InitialStorage("working", "working", left)
  /\ env \in DetectEnvs
  /\ content = [e \in Leaves |-> Txt("Submit")]
  /\ Boot(MaxCalls)

NextDetect ==
  \/ Initialize
  \/ ScreenReaderModeChange

SpecDetect == InitDetect /\ [][NextDetect]_vars

\* The repair pass over every markup of a leaf element: a button or not, with a
\* role or not, aria-label absent, empty or set, aria-labelledby absent or set,
\* its text empty, blank, short or longer than a label may be.
LongText == "Please read the following instructions carefully before you continue"

RepairMarkups ==
  [ button : BOOLEAN, role : BOOLEAN,
    ariaLabel : {Null, Txt(""), Txt("Go")},
    labelledby : {Null, Txt("title")} ]

RepairTexts ==
  { Txt(""), [lead |-> 1, core |-> "", trail |-> 0], Txt("Submit"), Txt(LongText) }

InitRepair ==
  /\ lsMode = "working"
  /\ ssMode = "working"
  /\ storage = InitialStorage("working", "working", EmptyObj)
  /\ \E mk \in RepairMarkups, apple \in BOOLEAN :
       env = [DefaultEnv EXCEPT !.win = ~apple, !.mac = apple,
                                !.controls = [e \in Leaves |-> mk]]
  /\ \E text \in RepairTexts : content = [e \in Leaves |-> text]
  /\ Boot(MaxCalls)

SpecRepair == InitRepair /\ [][NextDetect]_vars

\* The audio alerts: every Web Audio situation (available, missing, a
\* constructor that throws), pages with and without #audioToggle, a store that
\* works and one whose localStorage throws, a stored preference or none.
InitAudio ==
  /\ \E c \in { <<"working", "working">>, <<"throwing", "working">> },
        left \in {EmptyObj, [audioAlertsEnabled |-> T(<<"false">>)]} :
       /\ lsMode = c[1]
       /\ ssMode = c[2]
       /\ storage = InitialStorage(c[1], c[2], left)
  /\ \E api \in {"available", "absent", "throwing"}, toggle \in BOOLEAN :
       env = [DefaultEnv EXCEPT !.audioApi = api, !.audioToggle = toggle]
  /\ content = [e \in Leaves |-> Txt("Submit")]
  /\ Boot(MaxCalls)

NextAudio ==
  \/ Initialize
  \/ UserClick
  \/ PlaySuccessSound
  \/ PlayErrorSound
  \/ PlayInfoSound
  \/ ToggleAudioAlerts
  \/ TimerFires

SpecAudio == InitAudio /\ [][NextAudio]_vars

\* The announcer and the two lazily created resources: announcements by the
\* host, the first click, audio toggles and an initialization that may have to
\* retry because the host's own #a11yToggle comes without #a11yMenu.
InitAnnounce ==
  /\ lsMode = "working"
  /\ ssMode = "working"
  /\ storage = InitialStorage("working", "working", EmptyObj)
  /\ \E api \in {"available", "throwing"}, toggle \in BOOLEAN, host \in BOOLEAN :
       env = [DefaultEnv EXCEPT !.audioApi = api, !.audioToggle = toggle,
                                !.hostToggle = host]
  /\ content = [e \in Leaves |-> Txt("Submit")]
  /\ Boot(MaxCalls)

NextAnnounce ==
  \/ Initialize
  \/ AnnounceToScreenReader
  \/ UserClick
  \/ ToggleAudioAlerts
  \/ TimerFires
  \/ Tick
  \/ HostInsertsMenu

SpecAnnounce == InitAnnounce /\ [][NextAnnounce]_vars

\* Startup: pages with and without controls of their own, every kind of stored
\* snapshot, the script run again, the keyboard shortcuts and the menu toggle.
StartupStores ==
  { EmptyObj,
    [a11ySettings |-> Truncated(PartialSnapshot)],
    [a11ySettings |-> NullSnapshot],
    [a11ySettings |-> UnknownKeySnapshot] }

InitStartup ==
  /\ lsMode = "working"
  /\ ssMode = "working"
  /\ \E left \in StartupStores : storage = InitialStorage("working", "working", left)
  /\ \E toggle \in BOOLEAN, menu \in BOOLEAN :
       env = [DefaultEnv EXCEPT !.hostToggle = toggle, !.hostMenu = menu]
  /\ content = [e \in Leaves |-> Txt("Submit")]
  /\ Boot(MaxCalls)

NextStartup ==
  \/ Initialize
  \/ TimerFires
  \/ HostInsertsMenu
  \/ RunScriptAgain
  \/ KeyPress
  \/ ToggleClick
  \/ KeyboardShortcutsChange

SpecStartup == InitStartup /\ [][NextStartup]_vars

\* The two overlays and their deferred updates: sessions that start with both
\* features stored as on or with nothing stored, toggles, pointer and focus
\* moves, Tab and arrow keys, and the timeouts they leave behind.
OverlaySnapshot == JSONStringify([readingGuide |-> B(TRUE), tabOrder |-> B(TRUE)])

InitOverlay ==
  /\ lsMode = "working"
  /\ ssMode = "working"
  /\ \E left \in {EmptyObj, [a11ySettings |-> OverlaySnapshot]} :
       storage = InitialStorage("working", "working", left)
  /\ env = DefaultEnv
  /\ content = [e \in Leaves |-> Txt("Submit")]
  /\ Boot(MaxCalls)

NextOverlay ==
  \/ Initialize
  \/ ToggleReadingGuide
  \/ ToggleTabOrder
  \/ MouseMove
  \/ FocusIn
  \/ ArrowKey
  \/ TabKey
  \/ TimerFires

SpecOverlay == InitOverlay /\ [][NextOverlay]_vars

\* The two store entries side by side: every store configuration, a store
\* that holds both entries or none, settings changes, the audio toggle, the
\* reset with its reload, over successive sessions.
InitEntries ==
  /\ \E c \in StoreConfigs,
        left \in {EmptyObj, [a11ySettings |-> PartialSnapshot,
                             audioAlertsEnabled |-> T(<<"false">>)]} :
       /\ lsMode = c[1]
       /\ ssMode = c[2]
       /\ storage = InitialStorage(c[1], c[2], left)
  /\ \E toggle \in BOOLEAN : env = [DefaultEnv EXCEPT !.audioToggle = toggle]
  /\ content = [e \in Leaves |-> Txt("Submit")]
  /\ Boot(MaxCalls)

NextEntries ==
  \/ Initialize
  \/ ToggleHighContrast
  \/ KeyboardShortcutsChange
  \/ ToggleAudioAlerts
  \/ ResetA11ySettings
  \/ TimerFires

SpecEntries == InitEntries /\ [][NextEntries]_vars

\* window.A11yPlugin called by a host page with arguments of its own choice:
\* a size off the slider's steps, a scheme the select does not list, values
\* of another type; sessions that start from nothing or from a snapshot that
\* parses and holds such values.
ApiValues == {N(110), S("dark"), B(TRUE), Null}
OffScaleSnapshot == JSONStringify([textSize |-> N(110), colorScheme |-> S("dark")])

ApiToggleHighContrast ==
  \E v \in ApiValues : Call("toggleHighContrast", v, toggleHighContrast(Cur, v))

ApiSetTextSize ==
  \E v \in ApiValues : Call("setTextSize", v, setTextSize(Cur, v))

ApiSetColorScheme ==
  \E v \in ApiValues : Call("setColorScheme", v, setColorScheme(Cur, v))

InitApi ==
  /\ lsMode = "working"
  /\ ssMode = "working"
  /\ \E left \in {EmptyObj, [a11ySettings |-> OffScaleSnapshot]} :
       storage = InitialStorage("working", "working", left)
  /\ env = DefaultEnv
  /\ content = [e \in Leaves |-> Txt("Submit")]
  /\ Boot(MaxCalls)

NextApi ==
  \/ Initialize
  \/ ApiToggleHighContrast
  \/ ApiSetTextSize
  \/ ApiSetColorScheme
  \/ TimerFires

SpecApi == InitApi /\ [][NextApi]_vars

\* The menu and its toggle: the injected panel (aria-expanded="false", menu
\* closed), sessions with the shortcuts stored as on or off, clicks on the
\* toggle and outside, Alt+A and Escape, reloads.
InitMenu ==
  /\ lsMode = "working"
  /\ ssMode = "working"
  /\ \E left \in {EmptyObj, [a11ySettings |-> UnknownKeySnapshot]} :
       storage = InitialStorage("working", "working", left)
  /\ env = DefaultEnv
  /\ content = [e \in Leaves |-> Txt("Submit")]
  /\ Boot(MaxCalls)

NextMenu ==
  \/ Initialize
  \/ ToggleClick
  \/ KeyPress
  \/ OutsideClick
  \/ Reload
  \/ TimerFires

SpecMenu == InitMenu /\ [][NextMenu]_vars

\* The announcing operations beside the two announcement settings: sessions
\* that start with both settings stored as off or with nothing stored, pages
\* with and without #audioToggle.
QuietSnapshot == JSONStringify([announceChanges |-> B(FALSE), ariaLive |-> B(FALSE)])

InitNotify ==
  /\ lsMode = "working"
  /\ ssMode = "working"
  /\ \E left \in {EmptyObj, [a11ySettings |-> QuietSnapshot]} :
       storage = InitialStorage("working", "working", left)
  /\ \E toggle \in BOOLEAN : env = [DefaultEnv EXCEPT !.audioToggle = toggle]
  /\ content = [e \in Leaves |-> Txt("Submit")]
  /\ Boot(MaxCalls)

NextNotify ==
  \/ Initialize
  \/ ToggleHighContrast
  \/ SetColorScheme
  \/ ToggleSimpleLanguage
  \/ ToggleAudioAlerts
  \/ AnnounceChangesChange
  \/ AriaLiveChange
  \/ TimerFires

SpecNotify == InitNotify /\ [][NextNotify]_vars

\* The snapshot's life: every store configuration, a store that holds a
\* snapshot, a truncated one or none, a page whose own #a11yToggle may come
\* without #a11yMenu, the script run again, settings changes, resets, reloads.
InitLifecycle ==
  /\ \E c \in StoreConfigs,
        left \in {EmptyObj, [a11ySettings |-> PartialSnapshot],
                            [a11ySettings |-> Truncated(PartialSnapshot)]} :
       /\ lsMode = c[1]
       /\ ssMode = c[2]
       /\ storage = InitialStorage(c[1], c[2], left)
  /\ \E host \in BOOLEAN : env = [DefaultEnv EXCEPT !.hostToggle = host]
  /\ content = [e \in Leaves |-> Txt("Submit")]
  /\ Boot(MaxCalls)

NextLifecycle ==
  \/ Initialize
  \/ TimerFires
  \/ HostInsertsMenu
  \/ RunScriptAgain
  \/ ToggleHighContrast
  \/ KeyboardShortcutsChange
  \/ ResetA11ySettings
  \/ Reload

SpecLifecycle == InitLifecycle /\ [][NextLifecycle]_vars

\* The steps of Initialize, told by the call they record and the time they
\* run at; such a step is possible exactly when an attempt is due.
InitializeStep ==
  /\ AttemptDue
  /\ Called("init", Null)
  /\ now' = InitEntry.now

\* The browser delivers DOMContentLoaded and runs every timeout that is due;
\* the host is under no obligation to insert its menu.
SpecStartupFair ==
  SpecStartup /\ WF_<<lastCall, prevCall, now>>(InitializeStep) /\ WF_vars(TimerFires)

\* ------------------------------------------------------------- properties

SnapshotKey == "a11ySettings"
StoredSnapshot == getItem(storage, SnapshotKey)

\* C1: in every configuration of the two browser stores, safeStorage.getItem(k)
\* returns the last value safeStorage.setItem(k, v) wrote for k in this session.
C1_SetThenGet ==
  (lastCall.op = "getItem" /\ lastCall.arg.s \in DOMAIN written)
    => lastGet = written[lastCall.arg.s]

\* C2: after initialization has run loadA11ySettings, whatever snapshot was
\* stored, every key of the settings record is present and not null.
C2_TotalNonNull ==
  lastCall.op = "init" =>
    \A k \in Keys : k \in DOMAIN a11yState /\ ~IsNull(a11yState[k])

\* C3: when a session starts from the defaults and loadA11ySettings reads the
\* snapshot saveA11ySettings wrote of the previous session's record, every key
\* of the settings record has the value it had in that record.
C3_RoundTrip ==
  ( /\ lastCall.op = "init"
    /\ session > 1
    /\ loadInfo.before = Defaults
    /\ loadInfo.read = JSONStringify(prevRecord) )
    => \A k \in Keys : a11yState[k] = prevRecord[k]

C3_Witness ==
  /\ lastCall.op = "init"
  /\ session > 1
  /\ loadInfo.before = Defaults
  /\ loadInfo.read = JSONStringify(prevRecord)
  /\ prevRecord.keyboardShortcuts = B(FALSE)
  /\ prevRecord.textSize = N(150)
  /\ a11yState.textSize = N(150)

MutationOps ==
  { "toggleHighContrast", "setTextSize", "setColorScheme", "toggleEnhancedFocus",
    "toggleReduceMotion", "toggleSimpleLanguage", "toggleReadingGuide", "toggleTabOrder",
    "keyboardShortcuts", "screenReaderMode", "announceChanges", "ariaLive" }

\* C4: where the store keeps what it is given (localStorage does not throw), on
\* return from every settings mutation the stored snapshot is the serialization
\* of a11yState; after setTextSize(150) its textSize field is 150.
C4_SavedOnReturn ==
  (lastCall.op \in MutationOps /\ lsMode # "throwing")
    => /\ StoredSnapshot = JSONStringify(a11yState)
       /\ lastCall = [op |-> "setTextSize", arg |-> N(150)]
            => JSONParse(StoredSnapshot).obj.textSize = N(150)

C4_Witness ==
  /\ lastCall = [op |-> "setTextSize", arg |-> N(150)]
  /\ lsMode = "working"
  /\ prevCall.op = "init"
  /\ JSONParse(StoredSnapshot).ok
  /\ JSONParse(StoredSnapshot).obj.textSize = N(150)

\* C5: when the stored snapshot is absent or does not parse, loadA11ySettings
\* leaves a record that was at its defaults at its defaults, and the rest of
\* initialization runs: the audio preference is loaded, the keyboard shortcuts
\* are set up and the screen-reader marker is applied.
C5_DegradesToDefaults ==
  ( /\ lastCall.op = "init"
    /\ loadInfo.kind \in {"absent", "unparseable"}
    /\ loadInfo.before = Defaults )
    => /\ a11yState = Defaults
       /\ pc = "ready"
       /\ audio.audioEnabled =
            (IsNull(getItem(storage, "audioAlertsEnabled"))
               \/ getItem(storage, "audioAlertsEnabled") = T(<<"true">>))
       /\ <<"keydown", "shortcuts">> \in Range(page.listeners)
       /\ "sr-optimize-" \o Str(detectScreenReader(a11yState)) \in Range(page.bodyClasses)

C5_Witness ==
  /\ lastCall.op = "init"
  /\ loadInfo.kind = "unparseable"
  /\ loadInfo.before = Defaults
  /\ a11yState.textSize = N(100)
  /\ a11yState.highContrast = B(FALSE)
  /\ ~audio.audioEnabled
  /\ <<"keydown", "shortcuts">> \in Range(page.listeners)

\* C6 as stated: a parseable snapshot is merged over the defaults, each key it
\* holds taking its value, each missing key keeping its default, and keys that
\* are not keys of the settings record are ignored.
C6_UnknownKeysIgnored ==
  (lastCall.op = "init" /\ loadInfo.kind = "parsed")
    => /\ \A k \in Keys \cap DOMAIN loadInfo.obj : a11yState[k] = loadInfo.obj[k]
       /\ \A k \in Keys \ DOMAIN loadInfo.obj : a11yState[k] = Defaults[k]
       /\ DOMAIN a11yState = Keys
       /\ DOMAIN JSONParse(StoredSnapshot).obj \subseteq Keys

\* C6, amended: a parseable snapshot is merged over the defaults; every key it
\* holds, a key of the settings record or not, takes the snapshot's value (a
\* null keyboardShortcuts becomes true), every missing key keeps its default,
\* and the keys the snapshot brought stay in a11yState and in every snapshot
\* saved later in the session.
C6_MergeKeepsUnknownKeys ==
  /\ (lastCall.op = "init" /\ loadInfo.kind = "parsed")
       => /\ DOMAIN a11yState = Keys \cup DOMAIN loadInfo.obj
          /\ \A k \in DOMAIN loadInfo.obj :
               a11yState[k] = IF k = "keyboardShortcuts" /\ IsNull(loadInfo.obj[k])
                              THEN B(TRUE) ELSE loadInfo.obj[k]
          /\ \A k \in Keys \ DOMAIN loadInfo.obj : a11yState[k] = Defaults[k]
  /\ loadInfo.kind = "parsed"
       => /\ DOMAIN loadInfo.obj \subseteq DOMAIN a11yState
          /\ JSONParse(StoredSnapshot).ok
          /\ DOMAIN loadInfo.obj \subseteq DOMAIN JSONParse(StoredSnapshot).obj

C6_Witness ==
  /\ lastCall.op \in MutationOps
  /\ prevCall.op = "init"
  /\ loadInfo.kind = "parsed"
  /\ "theme" \in DOMAIN loadInfo.obj
  /\ a11yState.theme = S("dark")
  /\ JSONParse(StoredSnapshot).obj.theme = S("dark")
  /\ a11yState.voiceControl = B(FALSE)

\* C7: after resetA11ySettings has removed the snapshot and reloaded the page,
\* the loadA11ySettings of the new session finds no snapshot and the record has
\* the default value for every key.
C7_ResetYieldsDefaults ==
  (lastCall.op = "init" /\ startedBy = "reset" /\ prevCall.op = "script")
    => /\ loadInfo.kind = "absent"
       /\ IsNull(loadInfo.read)
       /\ a11yState = Defaults

C7_Witness ==
  /\ lastCall.op = "init"
  /\ startedBy = "reset"
  /\ prevCall.op = "script"
  /\ lsMode = "working"
  /\ prevRecord # Defaults
  /\ a11yState = Defaults

Applicators ==
  { "toggleHighContrast", "setTextSize", "setColorScheme", "toggleEnhancedFocus",
    "toggleReduceMotion", "toggleSimpleLanguage", "toggleReadingGuide", "toggleTabOrder" }

\* What a second call of an applicator could be seen to change: the record, the
\* marker classes and font size of body, the overlays, the listeners, the texts.
Observable ==
  << a11yState, page.bodyClasses, page.fontSize, page.textSizeValue, page.elems,
     page.readingGuideEl, page.guideEls, page.guideActive, page.guideTop,
     page.tabIndicatorEl, page.tabEls, page.tabActive, page.tabBox, page.listeners >>

\* C8: a call of a single-feature applicator that directly follows a call of the
\* same applicator with the same value changes neither a11yState nor the page
\* (marker classes, overlays, listeners, substituted texts).
C8_Idempotent ==
  [][ (opsLeft' = opsLeft - 1 /\ lastCall' = lastCall /\ lastCall.op \in Applicators)
        => Observable' = Observable ]_vars

C8_Witness ==
  /\ lastCall = prevCall
  /\ lastCall = [op |-> "toggleReadingGuide", arg |-> B(TRUE)]
  /\ opsLeft = 0
  /\ page.guideEls = 1
  /\ Len(SelectSeq(page.listeners, LAMBDA l : l = <<"mousemove", "updateReadingGuide">>)) = 1

ColorMarkers == SelectSeq(page.bodyClasses, LAMBDA c : c \in ColorClasses)

\* C9 as stated: after setColorScheme(A) then setColorScheme(B) exactly one
\* scheme marker is on body, B's, and two markers never coexist.
C9_ExactlyOneMarker ==
  /\ Len(ColorMarkers) <= 1
  /\ (lastCall.op = "setColorScheme" /\ prevCall.op = "setColorScheme")
       => ColorMarkers = << "color-" \o Str(lastCall.arg) >>

\* C9, amended: after setColorScheme(A) then setColorScheme(B), body carries
\* exactly one scheme marker, B's, when B is not 'default', and no scheme
\* marker when B is 'default'; two scheme markers never coexist.
C9_AtMostOneMarker ==
  /\ Len(ColorMarkers) <= 1
  /\ (lastCall.op = "setColorScheme" /\ prevCall.op = "setColorScheme")
       => ColorMarkers = IF lastCall.arg = S("default") THEN <<>>
                         ELSE << "color-" \o Str(lastCall.arg) >>

C9_Witness ==
  /\ lastCall = [op |-> "setColorScheme", arg |-> S("tritanopia")]
  /\ prevCall = [op |-> "setColorScheme", arg |-> S("protanopia")]
  /\ ColorMarkers = << "color-tritanopia" >>

\* C10: after toggleSimpleLanguage(true) then toggleSimpleLanguage(false), every
\* leaf element whose trimmed text is a dictionary key has the exact text the
\* page was served with, surrounding whitespace included, and no recorded
\* original.
C10_ExactRestore ==
  ( /\ lastCall = [op |-> "toggleSimpleLanguage", arg |-> B(FALSE)]
    /\ prevCall = [op |-> "toggleSimpleLanguage", arg |-> B(TRUE)] )
    => \A e \in Leaves :
         Trim(content[e]) \in DOMAIN simpleLanguageMap
           => page.elems[e].text = content[e] /\ page.elems[e].orig = Null

\* C11: after toggleSimpleLanguage has enabled or disabled the feature, every
\* leaf element whose (trimmed) text is not a key of simpleLanguageMap has the
\* text the page was served with and no recorded original.
C11_OnlyDictionaryKeys ==
  lastCall.op = "toggleSimpleLanguage"
    => \A e \in Leaves :
         Trim(content[e]) \notin DOMAIN simpleLanguageMap
           => page.elems[e].text = content[e] /\ page.elems[e].orig = Null

\* C12: whatever sequence of toggleReadingGuide and toggleTabOrder calls has
\* run, the page holds at most one reading-guide overlay and at most one
\* tab-indicator overlay.
C12_OneOverlayEach ==
  /\ page.guideEls <= 1
  /\ page.tabEls <= 1
  /\ page.readingGuideEl <=> page.guideEls = 1
  /\ page.tabIndicatorEl <=> page.tabEls = 1

C12_Witness ==
  /\ lastCall = [op |-> "toggleTabOrder", arg |-> B(TRUE)]
  /\ prevCall = [op |-> "toggleReadingGuide", arg |-> B(TRUE)]
  /\ loadInfo.kind = "parsed"
  /\ page.guideEls = 1
  /\ page.tabEls = 1
  /\ page.guideActive

GuideListeners == {<<"mousemove", "updateReadingGuide">>, <<"keydown", "updateReadingGuideOnKey">>}
TabListeners == {<<"keydown", "handleTabOrderKey">>, <<"focusin", "updateTabIndicator">>}
Registered(l) == Len(SelectSeq(page.listeners, LAMBDA x : x = l))

\* C13: a tracking listener of the reading guide (of the tab indicator) is
\* registered at most once, and only while a11yState.readingGuide
\* (a11yState.tabOrder) is true; when toggleReadingGuide(false) or
\* toggleTabOrder(false) has returned, none of the feature's listeners is left.
C13_ListenersFollowFlag ==
  /\ \A l \in GuideListeners :
       Registered(l) <= 1 /\ (Registered(l) = 1 => Truthy(a11yState.readingGuide))
  /\ \A l \in TabListeners :
       Registered(l) <= 1 /\ (Registered(l) = 1 => Truthy(a11yState.tabOrder))
  /\ lastCall = [op |-> "toggleReadingGuide", arg |-> B(FALSE)]
       => \A l \in GuideListeners : Registered(l) = 0
  /\ lastCall = [op |-> "toggleTabOrder", arg |-> B(FALSE)]
       => \A l \in TabListeners : Registered(l) = 0

C13_Witness ==
  /\ lastCall = [op |-> "toggleTabOrder", arg |-> B(FALSE)]
  /\ prevCall = [op |-> "toggleTabOrder", arg |-> B(TRUE)]
  /\ \A l \in TabListeners : Registered(l) = 0
  /\ \A l \in GuideListeners : Registered(l) = 1
  /\ ~Truthy(a11yState.tabOrder)

\* The decision order of the detection heuristic, as a table over the
\* environment descriptor (speech capability, platform signatures).
ReferenceMode(stored, e) ==
  LET apple == e.mac \/ e.ios
      bySpeech == e.voices /\ (apple \/ e.win)
  IN  IF stored # S("auto") THEN stored
      ELSE CASE bySpeech /\ apple -> S("voiceover")
             [] bySpeech /\ ~apple -> S("narrator")
             [] ~bySpeech /\ e.win -> S("nvda")
             [] ~bySpeech /\ ~e.win /\ apple -> S("voiceover")
             [] ~bySpeech /\ ~e.win /\ ~apple /\ e.android -> S("talkback")
             [] ~bySpeech /\ ~e.win /\ ~apple /\ ~e.android /\ e.linux -> S("orca")
             [] OTHER -> S("nvda")

SrMarkers == SelectSeq(page.bodyClasses, LAMBDA c : c \in SrClasses)

\* C14: for every stored mode and every environment detectScreenReader()
\* returns what the reference decision function gives; with mode 'auto' on
\* Windows without speech voices that is nvda.
C14_DetectMatchesReference ==
  /\ detectScreenReader(a11yState) = ReferenceMode(a11yState.screenReaderMode, env)
  /\ (a11yState.screenReaderMode = S("auto") /\ env.win /\ ~env.voices)
       => detectScreenReader(a11yState) = S("nvda")

C14_Witness ==
  /\ lastCall = [op |-> "screenReaderMode", arg |-> S("auto")]
  /\ prevCall = [op |-> "screenReaderMode", arg |-> S("orca")]
  /\ env.win /\ env.linux /\ env.voices /\ ~env.mac /\ ~env.ios
  /\ detectScreenReader(a11yState) = S("narrator")
  /\ SrMarkers = << "sr-optimize-narrator" >>

\* C15: when applyScreenReaderOptimizations has run (at initialization and in
\* the screenReaderMode change handler), body carries exactly one profile
\* marker class, the one of the mode detectScreenReader() returns.
C15_OneProfileMarker ==
  lastCall.op \in {"init", "screenReaderMode"}
    => SrMarkers = << "sr-optimize-" \o Str(detectScreenReader(a11yState)) >>

C15_Witness ==
  /\ lastCall = [op |-> "screenReaderMode", arg |-> S("jaws")]
  /\ prevCall = [op |-> "screenReaderMode", arg |-> S("orca")]
  /\ SrMarkers = << "sr-optimize-jaws" >>
  /\ "sr-optimize-orca" \notin Range(page.bodyClasses)

\* A step in which applyScreenReaderOptimizations runs.
RepairStep ==
  \/ pc = "loading" /\ pc' = "ready"
  \/ opsLeft' = opsLeft - 1 /\ lastCall'.op = "screenReaderMode"

\* C16 as stated: the repair pass never changes an aria-label attribute that is
\* already present, and a second call in the same mode changes nothing.
C16_KeepsPresentLabels ==
  [][ /\ RepairStep
        => \A e \in Leaves : page.labels[e] # Null => page'.labels[e] = page.labels[e]
      /\ (RepairStep /\ lastCall' = lastCall) => page' = page ]_vars

\* C16, amended: the repair pass never changes an aria-label attribute that is
\* present with a non-empty value (an aria-label that is present but empty is
\* treated as missing and may be given a generated name), and a second call
\* in the same mode changes nothing on the page.
C16_KeepsNonEmptyLabels ==
  [][ /\ RepairStep
        => \A e \in Leaves : HasValue(page.labels[e]) => page'.labels[e] = page.labels[e]
      /\ (RepairStep /\ lastCall' = lastCall) => page' = page ]_vars

C16_Witness ==
  /\ lastCall = [op |-> "screenReaderMode", arg |-> S("voiceover")]
  /\ prevCall = lastCall
  /\ env.controls["e1"].role
  /\ env.controls["e1"].ariaLabel = Null
  /\ content["e1"] = Txt(LongText)
  /\ page.labels["e1"] = Txt(SubSeq(LongText, 1, LabelLength))

\* The alert sounds as sequences of tones: frequency (hundredths of a hertz),
\* duration and offset from the call (milliseconds), waveform.
Schedule ==
  [ playSuccessSound |->
      << [frequency |-> 52325, duration |-> 150, type |-> "sine", offset |-> 0],
         [frequency |-> 65925, duration |-> 150, type |-> "sine", offset |-> 150],
         [frequency |-> 78399, duration |-> 200, type |-> "sine", offset |-> 300] >>,
    playErrorSound |->
      << [frequency |-> 44000, duration |-> 100, type |-> "square", offset |-> 0],
         [frequency |-> 34923, duration |-> 150, type |-> "square", offset |-> 100],
         [frequency |-> 26163, duration |-> 200, type |-> "square", offset |-> 250] >>,
    playInfoSound |->
      << [frequency |-> 60000, duration |-> 150, type |-> "sine", offset |-> 0] >> ]

\* The tones started since the last call, followed by the tones the pending
\* timeouts will start, each with its start time.
TonesSinceCall ==
  LET started == SubSeq(audio.tones, lastCall.arg.tones + 1, Len(audio.tones))
      waiting == SelectSeq(timers, LAMBDA t : t.cb = "playTone")
  IN  started \o [i \in 1 .. Len(waiting) |->
                    [frequency |-> waiting[i].tone.frequency,
                     duration |-> waiting[i].tone.duration,
                     type |-> waiting[i].tone.type, at |-> waiting[i].due]]

\* C17: with audio enabled and a context present, a call of playSuccessSound,
\* playErrorSound or playInfoSound (made while no tone of an earlier call is
\* still to come) starts exactly the tones of its sequence, in order, each at
\* its offset from the call with its duration and waveform, no two together.
C17_ToneSequences ==
  ( /\ lastCall.op \in DOMAIN Schedule
    /\ lastCall.arg.clean
    /\ audio.audioEnabled
    /\ audio.audioContext # "null" )
    => LET expected == Schedule[lastCall.op]
       IN  /\ TonesSinceCall =
                [i \in 1 .. Len(expected) |->
                   [frequency |-> expected[i].frequency, duration |-> expected[i].duration,
                    type |-> expected[i].type, at |-> lastCall.arg.at + expected[i].offset]]
           /\ \A i, j \in 1 .. Len(TonesSinceCall) :
                i < j => TonesSinceCall[i].at < TonesSinceCall[j].at

C17_Witness ==
  /\ lastCall.op = "playErrorSound"
  /\ lastCall.arg.clean
  /\ audio.audioEnabled
  /\ audio.audioContext # "null"
  /\ Len(audio.tones) = lastCall.arg.tones + 3
  /\ now = lastCall.arg.at + 250
  /\ audio.tones[Len(audio.tones)].frequency = 26163

\* C18: a call of playSuccessSound, playErrorSound or playInfoSound made while
\* audioEnabled is false starts no tone and schedules no timeout.
C18_MutedDoesNothing ==
  [][ ( /\ opsLeft' = opsLeft - 1
        /\ lastCall'.op \in DOMAIN Schedule
        /\ ~audio.audioEnabled )
        => audio' = audio /\ timers' = timers ]_vars

C18_Witness ==
  /\ lastCall.op = "playErrorSound"
  /\ prevCall.op = "toggleAudioAlerts"
  /\ ~audio.audioEnabled
  /\ audio.audioContext # "null"
  /\ Len(audio.tones) = lastCall.arg.tones
  /\ \A i \in DOMAIN timers : timers[i].cb # "playTone"

\* C19: after toggleAudioAlerts() the stored 'audioAlertsEnabled' preference is
\* the string form of audioEnabled, and after two calls in succession
\* audioEnabled has the value it had before the first.
C19_ToggleTwiceRestores ==
  /\ lastCall.op = "toggleAudioAlerts"
       => getItem(storage, "audioAlertsEnabled")
            = T(<< IF audio.audioEnabled THEN "true" ELSE "false" >>)
  /\ (lastCall.op = "toggleAudioAlerts" /\ prevCall.op = "toggleAudioAlerts")
       => audio.audioEnabled = prevCall.arg.was

\* C20: when toggleAudioAlerts() has turned audio on and a context is present,
\* the info tone has started by the time 'Audio alerts enabled.' is in the
\* live region.
C20_ToneBeforeAnnouncement ==
  ( /\ lastCall.op = "toggleAudioAlerts"
    /\ audio.audioEnabled
    /\ audio.audioContext # "null" )
    => /\ page.liveText = "Audio alerts enabled." => Len(audio.tones) > lastCall.arg.tones
       /\ Len(audio.tones) > lastCall.arg.tones
            => audio.tones[Len(audio.tones)].at = lastCall.arg.at

StoreOps == {"setItem", "getItem", "removeItem"}
AccessThrows == TierThrows(FirstTier)
NoTierYields(key) == \A t \in DOMAIN storage : key \notin DOMAIN storage[t]

\* C24: setItem, getItem and removeItem never surface an exception, whatever
\* tier is absent or throws, and getItem returns null when no tier holds the
\* key or when an access throws.
C24_NullWhenAccessThrows ==
  lastCall.op \in StoreOps =>
    /\ ~lastCall.arg.threw
    /\ (lastCall.op = "getItem" /\ (NoTierYields(lastCall.arg.s) \/ AccessThrows))
         => lastGet = Null

\* C24 as amended: no exception is surfaced; getItem returns null when no tier
\* holds the key or when localStorage throws, and when sessionStorage throws
\* it returns what the memory map holds for the key (null when that is
\* missing or falsy).
C24_NeverSurfaces ==
  lastCall.op \in StoreOps =>
    /\ ~lastCall.arg.threw
    /\ lastCall.op = "getItem" =>
         /\ (NoTierYields(lastCall.arg.s) \/ lsMode = "throwing") => lastGet = Null
         /\ (lsMode = "absent" /\ ssMode # "working") =>
              lastGet = IF Truthy(Lookup(storage.memoryStorage, lastCall.arg.s))
                        THEN storage.memoryStorage[lastCall.arg.s] ELSE Null

C24_Witness ==
  /\ lastCall.op = "getItem"
  /\ prevCall.op = "setItem"
  /\ lsMode = "absent"
  /\ ssMode = "throwing"
  /\ ~lastCall.arg.threw
  /\ lastGet # Null

\* The construction of the synthesis context has failed.
ConstructionFailed == audio.attempts > 0 /\ audio.audioContext = "null"

\* C21: after a failed construction of the context audio stays disabled for
\* the rest of the session: audioEnabled does not become true again, the
\* construction is not attempted again, and no tone is synthesized.
C21_DisabledForTheSession ==
  ConstructionFailed =>
    /\ ~audio.audioEnabled
    /\ audio.attempts = 1
    /\ audio.tones = <<>>

\* C22: announceToScreenReader(X) followed within one second by
\* announceToScreenReader(Y) leaves Y in the live region, and once every
\* timeout due up to one second after the second call has fired the region
\* is empty.
C22_SecondOverwritesThenClears ==
  ( /\ lastCall.op = "announceToScreenReader"
    /\ prevCall.op = "announceToScreenReader"
    /\ lastCall.arg.at - prevCall.arg.at < ClearDelay )
    => /\ Len(timers) = lastCall.arg.timers + 1 => page.liveText = lastCall.arg.message
       /\ ( /\ now >= lastCall.arg.at + ClearDelay
            /\ \A i \in DOMAIN timers : timers[i].due > lastCall.arg.at + ClearDelay )
            => page.liveText = ""

C22_Witness ==
  /\ lastCall.op = "announceToScreenReader"
  /\ prevCall.op = "announceToScreenReader"
  /\ lastCall.arg.message = "Y"
  /\ prevCall.arg.message = "X"
  /\ prevCall.arg.at < lastCall.arg.at
  /\ lastCall.arg.at - prevCall.arg.at < ClearDelay
  /\ now = lastCall.arg.at + ClearDelay
  /\ timers = <<>>
  /\ page.liveText = ""

\* C23: in a page session at most one live region and at most one synthesis
\* context are created, neither exists before the first operation that needs
\* it, and neither is removed or replaced afterwards.
C23_TwoSingletons ==
  /\ [](page.liveRegions <= 1 /\ audio.contexts <= 1)
  /\ []((lastCall = NoCall /\ pc = "loading") =>
          (page.liveRegions = 0 /\ audio.contexts = 0))
  /\ [][ /\ page'.liveRegions >= page.liveRegions
         /\ audio'.contexts >= audio.contexts
         /\ audio.audioContext # "null" => audio'.audioContext = audio.audioContext ]_vars

C23_Witness ==
  /\ env.hostToggle
  /\ pc = "ready"
  /\ lastCall.op = "announceToScreenReader"
  /\ prevCall.op = "toggleAudioAlerts"
  /\ page.liveRegions = 1
  /\ audio.contexts = 1
  /\ audio.audioContext # "null"

\* C25: with a host element a11yToggle no panel is injected and the handlers
\* are bound once, to the host's controls; without it exactly one panel is
\* injected by the first attempt; the page never holds two panels.
C25_HostPanelOrOnePanel ==
  /\ page.panels <= 1
  /\ env.hostToggle => page.panels = 0
  /\ (~env.hostToggle /\ pc # "loading") => page.panels = 1
  /\ pc = "ready" => page.bindings = 1
  /\ pc # "ready" => page.bindings = 0

C25_Witness ==
  /\ env.hostToggle
  /\ env.hostMenu
  /\ pc = "ready"
  /\ now >= RetryDelay
  /\ page.panels = 0
  /\ page.bindings = 1

NoDuplicate(seq) == \A i, j \in DOMAIN seq : seq[i] = seq[j] => i = j

\* C26: executing the script again changes nothing in the page or the
\* program: no second panel, filter block, live region or listener, and a
\* key press after it runs the shortcut handler once.
C26_SecondExecutionIsNoOp ==
  /\ [][ (lastCall'.op = "scriptAgain" /\ opsLeft' = opsLeft - 1) =>
           ( /\ page' = page /\ a11yState' = a11yState /\ timers' = timers
             /\ audio' = audio /\ storage' = storage /\ pc' = pc ) ]_vars
  /\ [](/\ page.panels <= 1 /\ page.filters <= 1 /\ page.liveRegions <= 1
        /\ page.bindings <= 1 /\ NoDuplicate(page.listeners))
  /\ [][ ( /\ lastCall'.op = "keydown" /\ opsLeft' = opsLeft - 1
           /\ lastCall.op = "scriptAgain"
           /\ lastCall'.arg.key = "Alt+A"
           /\ pc = "ready" /\ Truthy(a11yState.keyboardShortcuts) ) =>
           page'.menuOpen = ~page.menuOpen ]_vars

C26_Witness ==
  /\ lastCall.op = "keydown"
  /\ prevCall.op = "scriptAgain"
  /\ pc = "ready"
  /\ page.menuOpen
  /\ page.panels = 1
  /\ page.bindings = 1

\* A step that is a key press handled after initialization completed.
KeyPressed(key) ==
  /\ lastCall'.op = "keydown"
  /\ opsLeft' = opsLeft - 1
  /\ lastCall'.arg.key = key

C28_PassOnceAtEveryStartup == pc = "ready" => page.passes = 1

\* What the control of a settings key shows in the injected panel.
WidgetShows(key) ==
  IF key \in DOMAIN page.widgets THEN page.widgets[key] ELSE MarkupWidgets[key]

\* C29: when the reconciliation pass has finished, every control of the
\* injected panel shows the value the record holds for its key.
C29_WidgetsEqualRecord ==
  (pc = "ready" /\ page.passes >= 1 /\ ~env.hostToggle) =>
    \A key \in DOMAIN page.widgets \cup DOMAIN MarkupWidgets :
      WidgetShows(key) = a11yState[key]

\* Whether a further attempt of the initialization is scheduled.
RetryPending ==
  \E i \in DOMAIN timers : timers[i].cb = "initializeAccessibilityControls"

ThreeToneAlerts == {"playSuccessSound", "playErrorSound"}

\* The tones started since the call before the last one, followed by the
\* tones the pending timeouts will start.
TonesSincePrevCall ==
  LET started == SubSeq(audio.tones, prevCall.arg.tones + 1, Len(audio.tones))
      waiting == SelectSeq(timers, LAMBDA t : t.cb = "playTone")
  IN  started \o [i \in 1 .. Len(waiting) |->
                    [frequency |-> waiting[i].tone.frequency,
                     duration |-> waiting[i].tone.duration,
                     type |-> waiting[i].tone.type, at |-> waiting[i].due]]

\* The tones of the sequence of a call, each at its offset from the call.
TonesOf(call) ==
  [i \in 1 .. Len(Schedule[call.op]) |->
     [frequency |-> Schedule[call.op][i].frequency,
      duration |-> Schedule[call.op][i].duration,
      type |-> Schedule[call.op][i].type,
      at |-> call.arg.at + Schedule[call.op][i].offset]]

Occurrences(seq, x) == Cardinality({i \in DOMAIN seq : seq[i] = x})

\* C31: when a three-tone alert is called while the timeouts of the one
\* called before it are still pending (audio enabled, context present), no
\* timeout is cancelled: the six tones of both sequences are started, each at
\* its own offset from its own call, in the order of their start times.
C31_SequencesInterleave ==
  ( /\ lastCall.op \in ThreeToneAlerts
    /\ prevCall.op \in ThreeToneAlerts
    /\ prevCall.arg.clean
    /\ ~lastCall.arg.clean
    /\ audio.audioEnabled
    /\ audio.audioContext # "null" )
    => LET all == TonesSincePrevCall
           expected == TonesOf(prevCall) \o TonesOf(lastCall)
       IN  /\ Len(all) = 6
           /\ \A i \in DOMAIN expected :
                Occurrences(all, expected[i]) = Occurrences(expected, expected[i])
           /\ \A i, j \in DOMAIN all : i < j => all[i].at <= all[j].at

C31_Witness ==
  /\ prevCall.op = "playSuccessSound"
  /\ lastCall.op = "playErrorSound"
  /\ prevCall.arg.clean
  /\ ~lastCall.arg.clean
  /\ lastCall.arg.at = prevCall.arg.at + 150
  /\ ~TonePending
  /\ Len(audio.tones) = prevCall.arg.tones + 6
  /\ audio.tones[Len(audio.tones) - 1].frequency = 78399
  /\ audio.tones[Len(audio.tones)].frequency = 26163

\* C32: a tone only starts in a step that begins and ends with audioEnabled
\* true; a timeout of an earlier alert, or of the confirmation of
\* toggleAudioAlerts, that fires while the alerts are muted starts none.
C32_NoToneWhileMuted ==
  [][ audio'.tones # audio.tones => (audio.audioEnabled /\ audio'.audioEnabled) ]_vars

C32_Witness ==
  /\ prevCall.op = "playSuccessSound"
  /\ prevCall.arg.clean
  /\ lastCall.op = "toggleAudioAlerts"
  /\ lastCall.arg.was
  /\ lastCall.arg.tones = prevCall.arg.tones + 1
  /\ ~audio.audioEnabled
  /\ audio.audioContext # "null"
  /\ ~TonePending
  /\ now = prevCall.arg.at + 300
  /\ Len(audio.tones) = prevCall.arg.tones + 1

\* C33: after every toggleAudioAlerts() on a page that has #audioToggle, the
\* control's aria-checked attribute, audioEnabled and the stored
\* 'audioAlertsEnabled' preference denote the same boolean (stated for a
\* localStorage that works, so that the preference is stored at all).
C33_ToggleKeepsThreeInStep ==
  (lastCall.op = "toggleAudioAlerts" /\ env.audioToggle /\ lsMode = "working") =>
    /\ audio.ariaChecked = BoolString(audio.audioEnabled)
    /\ getItem(storage, "audioAlertsEnabled") = T(<<BoolString(audio.audioEnabled)>>)

\* C34: a message written by announceToScreenReader is still in the live
\* region while it is less than one second old and no later call has
\* overwritten it.
C34_MessageStaysOneSecond ==
  (lastCall.op = "announceToScreenReader" /\ now < lastCall.arg.at + ClearDelay)
    => page.liveText = lastCall.arg.message

\* C35: the tab indicator is active only while a11yState.tabOrder is truthy
\* and the reading guide only while a11yState.readingGuide is; while a flag
\* stays falsy no step, the firing of a timeout set by a key press before the
\* disable included, moves or activates its overlay.
C35_OverlaysFollowFlags ==
  /\ [](page.tabActive => Truthy(a11yState.tabOrder))
  /\ [](page.guideActive => Truthy(a11yState.readingGuide))
  /\ [][ (~Truthy(a11yState.tabOrder) /\ ~Truthy(a11yState'.tabOrder))
           => (page'.tabBox = page.tabBox /\ page'.tabActive = page.tabActive) ]_vars
  /\ [][ (~Truthy(a11yState.readingGuide) /\ ~Truthy(a11yState'.readingGuide))
           => (page'.guideTop = page.guideTop /\ page'.guideActive = page.guideActive) ]_vars

C35_Witness ==
  /\ prevCall = [op |-> "keydown", arg |-> S("Tab")]
  /\ lastCall = [op |-> "toggleTabOrder", arg |-> B(FALSE)]
  /\ page.tabIndicatorEl
  /\ page.focused = "button"
  /\ page.tabBox = "button"
  /\ ~page.tabActive
  /\ now = 50
  /\ \A i \in DOMAIN timers : timers[i].cb # "updateTabIndicator"

\* What the plugin reads back for each of its two keys.
AudioEntry == getItem(storage, "audioAlertsEnabled")
SettingsEntry == getItem(storage, "a11ySettings")

AudioToggled == lastCall'.op = "toggleAudioAlerts" /\ opsLeft' = opsLeft - 1
ResetDone == startedBy' = "reset" /\ session' = session + 1

\* C36: the two store entries are independent: only toggleAudioAlerts()
\* changes the 'audioAlertsEnabled' entry (no settings change, save, load or
\* reset does), and toggleAudioAlerts() changes neither the 'a11ySettings'
\* entry nor a11yState.
C36_EntriesIndependent ==
  /\ [][ AudioEntry' # AudioEntry => AudioToggled ]_vars
  /\ [][ AudioToggled => (SettingsEntry' = SettingsEntry /\ a11yState' = a11yState) ]_vars

\* C36 (amended): as C36, except that where the entries live in the memory
\* map the reload of resetA11ySettings() discards the map, and the audio
\* entry with it.
C36_IndependentButForMemoryMap ==
  /\ [][ AudioEntry' # AudioEntry =>
           \/ AudioToggled
           \/ ( /\ ResetDone
                /\ lsMode = "absent" /\ ssMode # "working"
                /\ storage'.memoryStorage = EmptyObj
                /\ AudioEntry' = Null ) ]_vars
  /\ [][ AudioToggled => (SettingsEntry' = SettingsEntry /\ a11yState' = a11yState) ]_vars

C36_Witness ==
  /\ session = 2
  /\ startedBy = "reset"
  /\ lsMode = "working"
  /\ lastCall = NoCall
  /\ prevCall.op = "toggleAudioAlerts"
  /\ AudioEntry = T(<<"true">>)
  /\ SettingsEntry = Null

\* C37: in every reachable state each field of a11yState lies in its declared
\* domain: textSize one of 100, 125, 150, 175, 200, colorScheme and
\* screenReaderMode members of their enumerations, every other field a
\* boolean; whatever the exported setters were called with and whatever
\* parseable snapshot was loaded.
InDomain(rec) ==
  /\ rec.textSize \in {N(v) : v \in TextSizes}
  /\ rec.colorScheme \in {S(v) : v \in ColorSchemes}
  /\ rec.screenReaderMode \in {S(v) : v \in ScreenReaderModes}
  /\ \A k \in DOMAIN Defaults \ {"textSize", "colorScheme", "screenReaderMode"} :
       IsBool(rec[k])

C37_FieldsInDomain == InDomain(a11yState)

\* C38: the toggle's aria-expanded always equals whether the menu carries the
\* 'open' class, after any sequence of toggle clicks, Alt+A, Escape and
\* outside clicks; Escape and an outside click never open a closed menu.
C38_ExpandedFollowsOpen ==
  /\ [](page.ariaExpanded = BoolString(page.menuOpen))
  /\ [][ ( /\ lastCall'.op = "outsideClick" \/ KeyPressed("Escape")
           /\ opsLeft' = opsLeft - 1
           /\ ~page.menuOpen ) => ~page'.menuOpen ]_vars

C38_Witness ==
  /\ prevCall.op \in {"toggleClick", "keydown"}
  /\ lastCall.op = "outsideClick"
  /\ lastCall.arg.open
  /\ ~page.menuOpen
  /\ page.ariaExpanded = "false"

\* A step that is a call of op, and the argument it was called with.
CallOf(op) == lastCall'.op = op /\ opsLeft' = opsLeft - 1
CallArg == lastCall'.arg

\* C39: announcements do not depend on announceChanges or ariaLive:
\* toggleHighContrast, setColorScheme, toggleSimpleLanguage and
\* toggleAudioAlerts write their message to the live region for every value
\* of the two settings, and a change of either setting only updates the
\* record and persists it.
C39_AnnouncedWhateverTheSettings ==
  [][ /\ CallOf("toggleHighContrast") =>
           page'.liveText = IF Truthy(CallArg) THEN "High contrast mode enabled"
                            ELSE "High contrast mode disabled"
      /\ CallOf("setColorScheme") =>
           page'.liveText = "Color scheme changed to " \o Str(CallArg)
      /\ CallOf("toggleSimpleLanguage") =>
           page'.liveText = IF Truthy(CallArg) THEN "Simplified language enabled"
                            ELSE "Simplified language disabled"
      /\ CallOf("toggleAudioAlerts") =>
           page'.liveText = IF audio.audioEnabled THEN "Audio alerts disabled."
                            ELSE "Audio alerts enabled."
      /\ \A k \in {"announceChanges", "ariaLive"} :
           CallOf(k) =>
             /\ a11yState' = [a11yState EXCEPT ![k] = CallArg]
             /\ SettingsEntry' = JSONStringify(a11yState')
             /\ page'.liveText = page.liveText
             /\ page'.livePriority = page.livePriority
             /\ timers' = timers
             /\ audio' = audio ]_vars

\* C39 (amended): the same, with toggleAudioAlerts announcing only on a page
\* that has #audioToggle; without that element it leaves the live region as
\* it is, again for every value of the two settings.
C39_AnnouncedWhereTheToggleIs ==
  [][ /\ CallOf("toggleHighContrast") =>
           page'.liveText = IF Truthy(CallArg) THEN "High contrast mode enabled"
                            ELSE "High contrast mode disabled"
      /\ CallOf("setColorScheme") =>
           page'.liveText = "Color scheme changed to " \o Str(CallArg)
      /\ CallOf("toggleSimpleLanguage") =>
           page'.liveText = IF Truthy(CallArg) THEN "Simplified language enabled"
                            ELSE "Simplified language disabled"
      /\ CallOf("toggleAudioAlerts") =>
           page'.liveText = IF ~env.audioToggle THEN page.liveText
                            ELSE IF audio.audioEnabled THEN "Audio alerts disabled."
                            ELSE "Audio alerts enabled."
      /\ \A k \in {"announceChanges", "ariaLive"} :
           CallOf(k) =>
             /\ a11yState' = [a11yState EXCEPT ![k] = CallArg]
             /\ SettingsEntry' = JSONStringify(a11yState')
             /\ page'.liveText = page.liveText
             /\ page'.livePriority = page.livePriority
             /\ timers' = timers
             /\ audio' = audio ]_vars

C39_Witness ==
  /\ a11yState.announceChanges = B(FALSE)
  /\ a11yState.ariaLive = B(FALSE)
  /\ prevCall.op = "announceChanges"
  /\ lastCall.op = "setColorScheme"
  /\ page.liveText = "Color scheme changed to " \o Str(lastCall.arg)

\* A step that completes initialization, and with it the load.
LoadDone == pc # "ready" /\ pc' = "ready"
MemoryTier == lsMode = "absent" /\ ssMode = "throwing"

\* C40: the persisted snapshot is read exactly once per startup, also when
\* initialization was retried, and it is deleted only by resetA11ySettings():
\* no other step takes the 'a11ySettings' entry away, and an unparseable
\* snapshot found at load is left in the store.
C40_ReadOnceDeletedOnlyByReset ==
  /\ [](page.reads <= 1 /\ (pc = "ready" => page.reads = 1))
  /\ [][ (SettingsEntry # Null /\ SettingsEntry' = Null) => ResetDone ]_vars
  /\ [][ (LoadDone /\ LoadKind(SettingsEntry) = "unparseable") =>
           SettingsEntry' = SettingsEntry ]_vars

\* C40 (amended): the same, except that a snapshot held in
\* window._memoryStorage, where both browser stores are unusable, is also
\* gone after a reload of the page.
C40_DeletedByResetOrWithTheMemoryMap ==
  /\ [](page.reads <= 1 /\ (pc = "ready" => page.reads = 1))
  /\ [][ (SettingsEntry # Null /\ SettingsEntry' = Null) =>
           (ResetDone \/ (MemoryTier /\ startedBy' = "reload" /\ session' = session + 1)) ]_vars
  /\ [][ (LoadDone /\ LoadKind(SettingsEntry) = "unparseable") =>
           SettingsEntry' = SettingsEntry ]_vars

C40_Witness ==
  /\ pc = "ready"
  /\ page.reads = 1
  /\ env.hostToggle
  /\ now >= RetryDelay
  /\ loadInfo.kind = "unparseable"
  /\ SettingsEntry = Truncated(PartialSnapshot)
====
